---------------------------- MODULE Spec2Model ----------------------------
(***************************************************************************)
(* A model of src/server.py (DeepAgent server):                            *)
(*   - the streaming mapper, chat.generate() (lines 599-664),               *)
(*   - the agent slot of AgentManager and the chat handlers that use it     *)
(*     (lines 196-504, 572-692),                                            *)
(*   - the MCP output wrapper, wrap_mcp_tool.wrapped_func (lines 281-369).  *)
(*   - the custom tools (src/custom_tools) as initialize_agent registers     *)
(*     them (lines 219-252), and the calls of them,                         *)
(*   - the management endpoints of the MCP configuration (lines 824-868),   *)
(*   - the older wrapper of src/server_first.py (lines 243-288).            *)
(* Text is modelled as a sequence of one-character strings, so that strip, *)
(* concatenation and slicing are computed and not assumed.                 *)
(***************************************************************************)
EXTENDS Integers, Sequences, FiniteSets, TLC

VARIABLES
    \* ---- one streaming turn: the locals of chat.generate() ----
    gpc,              \* position of generate(): "new", "run", "done", "closed"
    final_response,   \* local final_response (line 601)
    step_count,       \* local step_count (line 602)
    seen_tool_calls,  \* local seen_tool_calls (line 603)
    events,           \* the events yielded to the client so far, in order
    chunks,           \* the chunks agent.astream() has yielded so far, in order
    cause,            \* per event: the chunk that triggered it and, for a
                      \* 'thinking' event, the identity of the tool call
    failure,          \* str(e) of the exception the source raised, or NoFailure
    pulls,            \* how many times the source was asked for a next chunk
    astream_calls,    \* how many times agent.astream() was called in the turn
    turn2,            \* the locals and the events of a second generate(), which
                      \* serves another request on the same agent
    \* ---- the agent slot: AgentManager and the chat requests ----
    started,          \* startup_event has run
    agent,            \* agent_manager.agent: NoAgent or the stored instance
    mcp_client,       \* agent_manager.mcp_client: NoClient or a client id
    mcp_enabled,      \* names of the enabled servers of the MCP configuration
    mcp_disabled,     \* names of its servers whose "enabled" is false
    instances,        \* number of agent instances created so far
    clients,          \* number of MCP clients created so far
    req,              \* per chat request: its position, its values, the build
                      \* it is suspended in and the instance that serves it
    slot_log,         \* the completed chat requests in the order in which they
                      \* obtained their instance (or failed)
    unloadable,       \* the files of the custom tools directory whose import
                      \* raises
    last_call,        \* the last call of a tool of the stored instance: the
                      \* arguments the agent gave and what the original got
    ws_turns,         \* the turns run on WebSocket connections, in order: the
                      \* instance that ran the turn and the instance stored
                      \* when the turn started
    \* ---- the MCP output wrapper and the spool directory ----
    clock,            \* datetime.now(), in whole seconds
    spool_dir,        \* the directory mcp_output exists
    files,            \* the files of mcp_output: file name -> content
    inv               \* per invocation of a wrapped MCP tool: its position, the
                      \* tool, the raw result and what the wrapper made of it

mapperVars == <<gpc, final_response, step_count, seen_tool_calls, events,
                chunks, cause, failure, pulls, astream_calls>>

slotVars == <<started, agent, mcp_client, mcp_enabled, mcp_disabled, instances,
              clients, req, slot_log, unloadable, last_call, ws_turns>>

wrapperVars == <<clock, spool_dir, files, inv>>

vars == <<mapperVars, slotVars, wrapperVars, turn2>>

\* What a step of one component leaves alone.
OutsideTurn == <<slotVars, wrapperVars, turn2>>
OutsideSlot == <<mapperVars, wrapperVars, turn2>>
OutsideWrapper == <<mapperVars, slotVars, turn2>>

-----------------------------------------------------------------------------
(* Bounds of the model                                                     *)

\* The agent yields at most this many chunks in a turn.
MaxSnaps == 3

\* Chat requests that arrive in a run of the server.
MaxRequests == 3

\* Invocations of wrapped MCP tools that may overlap.
MaxInvocations == 2

\* Seconds the clock may advance.
MaxClock == 1

\* Messages received on WebSocket connections.
MaxMessages == 2

-----------------------------------------------------------------------------
(* Text helpers                                                            *)

Last(s) == s[Len(s)]

\* str.strip(): whitespace removed at both ends.
RECURSIVE LStrip(_)
LStrip(s) == IF s # <<>> /\ Head(s) = " " THEN LStrip(Tail(s)) ELSE s

RECURSIVE RStrip(_)
RStrip(s) ==
    IF s # <<>> /\ Last(s) = " " THEN RStrip(SubSeq(s, 1, Len(s) - 1)) ELSE s

Strip(s) == RStrip(LStrip(s))

\* dict.get(key, default)
Get(d, key, default) == IF key \in DOMAIN d THEN d[key] ELSE default

T_unknown == <<"u", "n", "k", "n", "o", "w", "n">>
T_Calling == <<"C", "a", "l", "l", "i", "n", "g", " ">>
T_dots == <<".", ".", ".">>
T_TaskCompleted ==
    <<"T", "a", "s", "k", " ", "c", "o", "m", "p", "l", "e", "t", "e", "d", ".">>

-----------------------------------------------------------------------------
(* The inputs of a turn: what the agent may yield                          *)

NoFailure == [none |-> TRUE]

ToolArgs == [q |-> <<"x">>]

\* Pending tool calls. CallA and CallB are different calls of different tools
\* whose names and ids contain the separator; CallD carries neither a name
\* nor an id.
CallA == [name |-> <<"a">>, id |-> <<"b", "_", "c">>, args |-> ToolArgs]
CallB == [name |-> <<"a", "_", "b">>, id |-> <<"c">>, args |-> ToolArgs]
CallC == [name |-> <<"a">>, id |-> <<"c">>, args |-> ToolArgs]
CallD == [args |-> ToolArgs]

PendingLists ==
    {<<CallA>>, <<CallB>>, <<CallC>>, <<CallD>>, <<CallA, CallC>>, <<CallC, CallC>>}

Contents == {<<>>, <<" ">>, <<"p">>, <<"p", " ">>, <<"f">>}

HumanMessage == [type |-> "HumanMessage", content |-> <<"q">>]
ToolMessage == [type |-> "ToolMessage", content |-> <<"r">>]
AIMessage(content, tool_calls) ==
    [type |-> "AIMessage", content |-> content, tool_calls |-> tool_calls]

LastMessages ==
    {HumanMessage, ToolMessage}
        \cup {AIMessage(c, <<>>) : c \in Contents}
        \cup {AIMessage(<<>>, cl) : cl \in PendingLists}
        \cup {AIMessage(<<"p">>, <<CallA>>)}

\* A chunk of stream_mode="values": the whole state. It may lack the
\* "messages" key or hold an empty list (line 607).
Chunks ==
    {[files |-> <<>>], [messages |-> <<>>]}
        \cup {[messages |-> <<HumanMessage>>]}
        \cup {[messages |-> <<HumanMessage, m>>] : m \in LastMessages \ {HumanMessage}}

Errors == {<<"b", "o", "o", "m">>}

-----------------------------------------------------------------------------
(* chat.generate(): the body of the loop                                   *)

\* The (tool name, call id) pair of a pending call, as the call carries it.
Identity(tool_call) ==
    [k \in (DOMAIN tool_call) \cap {"name", "id"} |-> tool_call[k]]

\* tool_call_id = f"{tool_call.get('name', 'unknown')}_{tool_call.get('id', '')}"
ToolCallId(tool_call) ==
    Get(tool_call, "name", T_unknown) \o <<"_">> \o Get(tool_call, "id", <<>>)

\* Variant of ThinkingEvent whose text does not name the tool.
ThinkingEvent_without_name(tool_call) ==
    [type |-> "thinking", content |-> T_Calling \o <<"t", "o", "o", "l">> \o T_dots]

\* The 'thinking' event of line 637.
ThinkingEvent(tool_call) ==
    [type |-> "thinking",
     content |-> T_Calling \o Get(tool_call, "name", T_unknown) \o T_dots]

\* The state of the loop that one chunk changes.
LoopState(seen, steps, resp, evs, why) ==
    [seen |-> seen, steps |-> steps, resp |-> resp, evs |-> evs, why |-> why]

\* for tool_call in last_message.tool_calls: ... (lines 616-637); n is the
\* index of the chunk being processed.
RECURSIVE ForToolCalls(_, _, _)
ForToolCalls(tool_calls, st, n) ==
    IF tool_calls = <<>> THEN st
    ELSE LET tc == Head(tool_calls)
             key == ToolCallId(tc)
         IN IF key \in st.seen
            THEN ForToolCalls(Tail(tool_calls), st, n)
            ELSE ForToolCalls(
                   Tail(tool_calls),
                   LoopState(st.seen \cup {key}, st.steps + 1, st.resp,
                             Append(st.evs, ThinkingEvent(tc)),
                             Append(st.why, [snap |-> n, call |-> Identity(tc)])),
                   n)

\* Variant of LoopBody without the comparison with final_response at line
\* 644: unchanged content is sent again.
LoopBody_resends_content(chunk, st, n) ==
    IF "messages" \notin DOMAIN chunk \/ chunk.messages = <<>> THEN st
    ELSE LET last_message == Last(chunk.messages)
         IN IF /\ last_message.type = "AIMessage"
               /\ last_message.tool_calls # <<>>
            THEN ForToolCalls(last_message.tool_calls, st, n)
            ELSE IF /\ last_message.type = "AIMessage"
                    /\ last_message.content # <<>>
                 THEN LET content == Strip(last_message.content)
                      IN IF content # <<>>
                         THEN LoopState(st.seen, st.steps, content,
                                        Append(st.evs,
                                               [type |-> "token", content |-> content]),
                                        Append(st.why,
                                               [snap |-> n, call |-> NoFailure]))
                         ELSE st
                 ELSE st

\* The body of `async for chunk in agent.astream(...)` (lines 607-647).
LoopBody(chunk, st, n) ==
    IF "messages" \notin DOMAIN chunk \/ chunk.messages = <<>> THEN st
    ELSE LET last_message == Last(chunk.messages)
         IN IF /\ last_message.type = "AIMessage"
               /\ last_message.tool_calls # <<>>
            THEN ForToolCalls(last_message.tool_calls, st, n)
            ELSE IF /\ last_message.type = "AIMessage"
                    /\ last_message.content # <<>>
                 THEN LET content == Strip(last_message.content)
                      IN IF content # <<>> /\ content # st.resp
                         THEN LoopState(st.seen, st.steps, content,
                                        Append(st.evs,
                                               [type |-> "token", content |-> content]),
                                        Append(st.why,
                                               [snap |-> n, call |-> NoFailure]))
                         ELSE st
                 ELSE st

-----------------------------------------------------------------------------
(* chat.generate(): the steps                                              *)

\* A generate() that has not started: lines 601-603 have not run.
NewTurn ==
    [gpc |-> "new", final_response |-> <<>>, step_count |-> 0,
     seen_tool_calls |-> {}, events |-> <<>>, chunks |-> <<>>, cause |-> <<>>]

MapperInit ==
    /\ turn2 = NewTurn
    /\ gpc = "new"
    /\ final_response = <<>>
    /\ step_count = 0
    /\ seen_tool_calls = {}
    /\ events = <<>>
    /\ chunks = <<>>
    /\ cause = <<>>
    /\ failure = NoFailure
    /\ pulls = 0
    /\ astream_calls = 0

\* The client starts reading the response: lines 601-606 up to the first pull.
generate_start ==
    /\ gpc = "new"
    /\ gpc' = "run"
    /\ final_response' = <<>>
    /\ step_count' = 0
    /\ seen_tool_calls' = {}
    /\ astream_calls' = astream_calls + 1
    /\ UNCHANGED <<events, chunks, cause, failure, pulls>>
    /\ UNCHANGED OutsideTurn

\* The source yields a chunk and the loop body runs on it.
generate_chunk(chunk) ==
    /\ gpc = "run"
    /\ Len(chunks) < MaxSnaps
    /\ LET st == LoopBody(chunk,
                          LoopState(seen_tool_calls, step_count, final_response,
                                    events, cause),
                          Len(chunks) + 1)
       IN /\ seen_tool_calls' = st.seen
          /\ step_count' = st.steps
          /\ final_response' = st.resp
          /\ events' = st.evs
          /\ cause' = st.why
    /\ chunks' = Append(chunks, chunk)
    /\ pulls' = pulls + 1
    /\ UNCHANGED <<gpc, failure, astream_calls>>
    /\ UNCHANGED OutsideTurn

\* Variant of generate_exhausted whose 'final' event always carries the
\* fallback text.
generate_exhausted_with_fallback ==
    /\ gpc = "run"
    /\ gpc' = "done"
    /\ pulls' = pulls + 1
    /\ events' = Append(events, [type |-> "final", content |-> T_TaskCompleted])
    /\ cause' = Append(cause, [snap |-> Len(chunks) + 1, call |-> NoFailure])
    /\ UNCHANGED <<final_response, step_count, seen_tool_calls, chunks, failure,
                   astream_calls>>
    /\ UNCHANGED OutsideTurn

\* The source is exhausted: lines 649-658.
generate_exhausted ==
    /\ gpc = "run"
    /\ gpc' = "done"
    /\ pulls' = pulls + 1
    /\ events' = Append(events,
                        [type |-> "final",
                         content |-> IF final_response # <<>>
                                     THEN final_response
                                     ELSE T_TaskCompleted])
    /\ cause' = Append(cause, [snap |-> Len(chunks) + 1, call |-> NoFailure])
    /\ UNCHANGED <<final_response, step_count, seen_tool_calls, chunks, failure,
                   astream_calls>>
    /\ UNCHANGED OutsideTurn

\* Variant of generate_raises in which the handler of line 660 does not end
\* the generator: the 'final' event of lines 650-658 follows the 'error' event.
generate_raises_then_final(e) ==
    /\ gpc = "run"
    /\ gpc' = "done"
    /\ pulls' = pulls + 1
    /\ failure' = e
    /\ events' = events \o <<[type |-> "error", content |-> e],
                             [type |-> "final",
                              content |-> IF final_response # <<>>
                                          THEN final_response
                                          ELSE T_TaskCompleted]>>
    /\ cause' = cause \o <<[snap |-> Len(chunks) + 1, call |-> NoFailure],
                           [snap |-> Len(chunks) + 1, call |-> NoFailure]>>
    /\ UNCHANGED <<final_response, step_count, seen_tool_calls, chunks,
                   astream_calls>>
    /\ UNCHANGED OutsideTurn

\* Variant of generate_raises in which the failure is reported inside the
\* loop and the source is pulled again.
generate_raises_and_resumes(e) ==
    /\ gpc = "run"
    /\ Len(events) < 2 * MaxSnaps
    /\ pulls' = pulls + 1
    /\ failure' = e
    /\ events' = Append(events, [type |-> "error", content |-> e])
    /\ cause' = Append(cause, [snap |-> Len(chunks) + 1, call |-> NoFailure])
    /\ UNCHANGED <<gpc, final_response, step_count, seen_tool_calls, chunks,
                   astream_calls>>
    /\ UNCHANGED OutsideTurn

\* The source raises e: the handler of lines 660-664.
generate_raises(e) ==
    /\ gpc = "run"
    /\ gpc' = "done"
    /\ pulls' = pulls + 1
    /\ failure' = e
    /\ events' = Append(events, [type |-> "error", content |-> e])
    /\ cause' = Append(cause, [snap |-> Len(chunks) + 1, call |-> NoFailure])
    /\ UNCHANGED <<final_response, step_count, seen_tool_calls, chunks,
                   astream_calls>>
    /\ UNCHANGED OutsideTurn

\* Variant of client_disconnects in which the handler of line 660 catches the
\* closing of the stream and an 'error' event is yielded.
client_disconnects_reported ==
    /\ gpc = "run"
    /\ gpc' = "closed"
    /\ events' = Append(events, [type |-> "error", content |-> <<"c">>])
    /\ cause' = Append(cause, [snap |-> Len(chunks) + 1, call |-> NoFailure])
    /\ UNCHANGED <<final_response, step_count, seen_tool_calls, chunks,
                   failure, pulls, astream_calls>>
    /\ UNCHANGED OutsideTurn

\* The client closes the stream while generate() is suspended at a yield or
\* in the source: GeneratorExit / CancelledError is no Exception, so the
\* handler of line 660 does not run.
client_disconnects ==
    /\ gpc = "run"
    /\ gpc' = "closed"
    /\ UNCHANGED <<final_response, step_count, seen_tool_calls, events, chunks,
                   cause, failure, pulls, astream_calls>>
    /\ UNCHANGED OutsideTurn

-----------------------------------------------------------------------------
(* Properties of the streaming turn                                        *)

HasMessages(chunk) == "messages" \in DOMAIN chunk /\ chunk.messages # <<>>

\* The identities among the pending tool calls of a chunk's last message.
PendingIdentities(chunk) ==
    IF HasMessages(chunk) /\ Last(chunk.messages).type = "AIMessage"
    THEN {Identity(Last(chunk.messages).tool_calls[i]) :
            i \in 1..Len(Last(chunk.messages).tool_calls)}
    ELSE {}

Appeared == UNION {PendingIdentities(chunks[n]) : n \in 1..Len(chunks)}

ThinkingEventsFor(identity) ==
    {i \in 1..Len(events) : events[i].type = "thinking" /\ cause[i].call = identity}

EventsOfType(t) == {i \in 1..Len(events) : events[i].type = t}

\* The events the chunks yielded so far are due: the loop body folded over them.
RECURSIVE MapChunks(_, _, _)
MapChunks(chs, st, n) ==
    IF chs = <<>> THEN st
    ELSE MapChunks(Tail(chs), LoopBody(Head(chs), st, n), n + 1)

DueEvents == MapChunks(chunks, LoopState({}, 0, <<>>, <<>>, <<>>), 1).evs

\* C1: in one turn, every tool-call identity (tool name, call id) that appears
\* among the pending tool calls of a chunk's last message has exactly one
\* 'thinking' event, however often it is repeated.
C1_OneThinkingPerIdentity ==
    \A identity \in Appeared : Cardinality(ThinkingEventsFor(identity)) = 1

\* C35: two pending tool calls of a turn whose (name, id) pairs differ have
\* different dedup keys, so that each of them has its 'thinking' event; names
\* and ids may contain the separator or be missing.
C35_DedupKeyInjective ==
    \A id1 \in Appeared, id2 \in Appeared :
        id1 # id2 =>
            /\ ToolCallId(id1) # ToolCallId(id2)
            /\ ThinkingEventsFor(id1) # {}
            /\ ThinkingEventsFor(id2) # {}

\* A call without name and id and a call with both appeared in one turn and
\* each has its 'thinking' event.
C35_Witness ==
    /\ Identity(CallD) \in Appeared
    /\ Identity(CallC) \in Appeared
    /\ ThinkingEventsFor(Identity(CallD)) # {}
    /\ ThinkingEventsFor(Identity(CallC)) # {}

\* C2: when the source has ended or raised, exactly one terminal event ('final'
\* or 'error') was emitted and it is the last event; before that no terminal
\* event exists; 'thinking' and 'token' events come in the order of the chunks
\* that triggered them, and each was triggered by the chunk it is attributed to.
C2_OneTerminalEventLast ==
    /\ gpc = "done" =>
         /\ events # <<>>
         /\ Last(events).type \in {"final", "error"}
         /\ Cardinality(EventsOfType("final") \cup EventsOfType("error")) = 1
         /\ (Last(events).type = "error") <=> (failure # NoFailure)
    /\ gpc # "done" => EventsOfType("final") \cup EventsOfType("error") = {}
    /\ \A i \in 1..Len(events) :
         /\ events[i].type \in {"thinking", "token", "final", "error"}
         /\ \A j \in 1..Len(events) : i < j => cause[i].snap <= cause[j].snap
         /\ events[i].type = "thinking" =>
              /\ cause[i].snap \in 1..Len(chunks)
              /\ cause[i].call \in PendingIdentities(chunks[cause[i].snap])
         /\ events[i].type = "token" =>
              /\ cause[i].snap \in 1..Len(chunks)
              /\ HasMessages(chunks[cause[i].snap])
              /\ events[i].content =
                   Strip(Last(chunks[cause[i].snap].messages).content)

\* A finished turn with a 'thinking' and a 'token' event before the 'final'.
C2_Witness ==
    /\ gpc = "done"
    /\ Last(events).type = "final"
    /\ EventsOfType("thinking") # {}
    /\ EventsOfType("token") # {}

\* C3: when the source raised after yielding k chunks, the events are those due
\* to the k chunks followed by one 'error' event that carries the failure
\* description; there is no 'final' event, the source was asked k + 1 times in
\* all and agent.astream() was called once.
C3_ErrorEndsTheTurn ==
    (gpc = "done" /\ failure # NoFailure) =>
        /\ events = DueEvents \o <<[type |-> "error", content |-> failure]>>
        /\ EventsOfType("final") = {}
        /\ pulls = Len(chunks) + 1
        /\ astream_calls = 1

\* The source raised after a chunk that produced a 'token' event.
C3_Witness ==
    /\ gpc = "done"
    /\ failure # NoFailure
    /\ Len(chunks) >= 1
    /\ Len(events) = 2
    /\ events[1].type = "token"
    /\ events[2].type = "error"

T_NoContentProduced ==
    <<"n", "o", " ", "c", "o", "n", "t", "e", "n", "t", " ",
      "p", "r", "o", "d", "u", "c", "e", "d">>

\* The content of the 'final' event of a turn that ended without failure:
\* that of the most recent 'token' event, or the fallback text.
FinalContent(fallback) ==
    IF EventsOfType("token") = {} THEN fallback
    ELSE events[CHOOSE i \in EventsOfType("token") :
                    \A j \in EventsOfType("token") : j <= i].content

Exhausted == gpc = "done" /\ failure = NoFailure

\* C16 as stated: when the source is exhausted without failure, the 'final'
\* event carries the content of the most recent 'token' event, or the text
\* "no content produced" if no 'token' event was emitted.
C16_FinalCarriesLastTokenOrNoContent ==
    Exhausted =>
        /\ Last(events).type = "final"
        /\ Last(events).content = FinalContent(T_NoContentProduced)

\* C16 amended: when the source is exhausted without failure, the 'final'
\* event carries the content of the most recent 'token' event, or the text
\* "Task completed." if no 'token' event was emitted.
C16_FinalCarriesLastTokenOrTaskCompleted ==
    Exhausted =>
        /\ Last(events).type = "final"
        /\ Last(events).content = FinalContent(T_TaskCompleted)

\* A turn ended without failure after chunks that produced a 'thinking'
\* event and no 'token' event: the 'final' event carries the fallback text.
C16_Witness ==
    /\ Exhausted
    /\ chunks # <<>>
    /\ EventsOfType("thinking") # {}
    /\ EventsOfType("token") = {}
    /\ Last(events).content = T_TaskCompleted

\* final_response when chunk n arrives.
EmittedBefore(n) ==
    MapChunks(SubSeq(chunks, 1, n - 1), LoopState({}, 0, <<>>, <<>>, <<>>), 1).resp

TokensFor(n) == {i \in EventsOfType("token") : cause[i].snap = n}

\* No two 'token' events that follow each other carry equal content, and a
\* last message with pending tool calls produces no 'token' event.
TokensNeverRepeat ==
    /\ \A i, j \in EventsOfType("token") :
          (i < j /\ \A k \in EventsOfType("token") : ~(i < k /\ k < j)) =>
              events[i].content # events[j].content
    /\ \A n \in 1..Len(chunks) :
          (/\ HasMessages(chunks[n])
           /\ Last(chunks[n].messages).type = "AIMessage"
           /\ Last(chunks[n].messages).tool_calls # <<>>) => TokensFor(n) = {}

\* C17 as stated: a chunk produces a 'token' event exactly when its last
\* message is an AIMessage without pending tool calls whose content is not
\* empty and differs from the last emitted content; the event carries the
\* full content of the message.
C17_TokenCarriesFullContent ==
    /\ \A n \in 1..Len(chunks) :
          LET m == Last(chunks[n].messages)
          IN /\ TokensFor(n) # {} <=>
                   /\ HasMessages(chunks[n])
                   /\ m.type = "AIMessage"
                   /\ m.tool_calls = <<>>
                   /\ m.content # <<>>
                   /\ m.content # EmittedBefore(n)
             /\ \A i \in TokensFor(n) : events[i].content = m.content
    /\ TokensNeverRepeat

\* C17 amended: a chunk produces a 'token' event, and only one, exactly when
\* its last message is an AIMessage without pending tool calls whose content,
\* with the whitespace at both ends removed, is not empty and differs from
\* the last emitted content; the event carries that stripped content, which
\* becomes the last emitted content.
C17_TokenCarriesStrippedContent ==
    /\ \A n \in 1..Len(chunks) :
          LET m == Last(chunks[n].messages)
          IN /\ TokensFor(n) # {} <=>
                   /\ HasMessages(chunks[n])
                   /\ m.type = "AIMessage"
                   /\ m.tool_calls = <<>>
                   /\ Strip(m.content) # <<>>
                   /\ Strip(m.content) # EmittedBefore(n)
             /\ Cardinality(TokensFor(n)) <= 1
             /\ \A i \in TokensFor(n) :
                   /\ events[i].content = Strip(m.content)
                   /\ EmittedBefore(n + 1) = events[i].content
    /\ gpc = "run" => final_response = EmittedBefore(Len(chunks) + 1)
    /\ TokensNeverRepeat

\* A message whose content ends with a blank produced a 'token' event that
\* carries the content without the blank, and a later message with the same
\* text and no blank produced none.
C17_Witness ==
    \E n \in 1..Len(chunks), k \in 1..Len(chunks) :
        /\ n < k
        /\ TokensFor(n) # {}
        /\ \A i \in TokensFor(n) :
              events[i].content # Last(chunks[n].messages).content
        /\ HasMessages(chunks[k])
        /\ Last(chunks[k].messages).type = "AIMessage"
        /\ Last(chunks[k].messages).tool_calls = <<>>
        /\ Last(chunks[k].messages).content # <<>>
        /\ TokensFor(k) = {}

\* The pending tool calls of chunk n with the given identity.
CallsOf(n, identity) ==
    {Last(chunks[n].messages).tool_calls[k] :
        k \in {x \in 1..Len(Last(chunks[n].messages).tool_calls) :
                 Identity(Last(chunks[n].messages).tool_calls[x]) = identity}}

\* The text t occurs in the text s.
Contains(s, t) ==
    \E k \in 0..(Len(s) - Len(t)) : SubSeq(s, k + 1, k + Len(t)) = t

\* The event names the tool of the call.
CarriesName(ev, tool_call) ==
    ev.content = T_Calling \o Get(tool_call, "name", T_unknown) \o T_dots

\* The event holds the arguments of the call, as a field or in its text.
CarriesArgs(ev, tool_call) ==
    \/ "args" \in DOMAIN ev /\ ev.args = tool_call.args
    \/ \A a \in DOMAIN tool_call.args : Contains(ev.content, tool_call.args[a])

\* C18 as stated: every 'thinking' event carries the tool name and the
\* arguments of the call it was emitted for.
C18_ThinkingCarriesNameAndArgs ==
    \A i \in EventsOfType("thinking") :
        \A tool_call \in CallsOf(cause[i].snap, cause[i].call) :
            CarriesName(events[i], tool_call) /\ CarriesArgs(events[i], tool_call)

\* C18 amended: every 'thinking' event has the fields type and content only,
\* and its content is the text 'Calling <name>...' with the tool name of the
\* call ('unknown' when the call has none); the arguments are not in it.
C18_ThinkingCarriesNameOnly ==
    \A i \in EventsOfType("thinking") :
        /\ DOMAIN events[i] = {"type", "content"}
        /\ CallsOf(cause[i].snap, cause[i].call) # {}
        /\ \A tool_call \in CallsOf(cause[i].snap, cause[i].call) :
              /\ CarriesName(events[i], tool_call)
              /\ ~CarriesArgs(events[i], tool_call)

\* 'thinking' events were emitted for a call with a name and for a call
\* without one.
C18_Witness ==
    /\ \E i \in EventsOfType("thinking") : "name" \in DOMAIN cause[i].call
    /\ \E i \in EventsOfType("thinking") : "name" \notin DOMAIN cause[i].call

-----------------------------------------------------------------------------
(* The agent slot: AgentManager (lines 196-504) and the chat handlers       *)

None == "None"
NoAgent == [id |-> 0]
NoClient == 0
NoCall == [pc |-> "none"]

\* Python truthiness of an Optional[str].
Truthy(v) == v # None /\ v # ""

DefaultModel == "anthropic:claude-sonnet-4-20250514"

\* The instructions built at lines 415-470, which name the browser mode.
DefaultInstructions(headless) ==
    IF headless THEN "default instructions, headless=True"
    ELSE "default instructions, headless=False"

\* The values a chat request may carry (ChatRequest, lines 536-542).
SystemPrompts == {None, "P"}
Models == {None, "openai:gpt-4"}
RequestValues ==
    [system_prompt : SystemPrompts, model : Models, headless : BOOLEAN]

RequestIds == 1..MaxRequests

IdleRequest == [pc |-> "idle"]

\* The arguments of initialize_agent (lines 205-209).
BuildArgs(instructions, model, headless) ==
    [instructions |-> instructions, model |-> model, headless |-> headless]

DefaultBuild == BuildArgs(None, None, TRUE)

\* A tool of the agent: its name, the provider it comes from, the wrapper
\* around its function ("none", "headless=True", "headless=False", or
\* "wrapped_func" for the large-response wrapper of lines 281-369) and what
\* was appended to its description.
Tool(name, kind, origin, wrapper) ==
    [name |-> name, kind |-> kind, origin |-> origin, wrapper |-> wrapper,
     annotation |-> ""]

\* Built-in tools (lines 213-216).
BuiltinTools ==
    <<Tool("duckduckgo_search", "builtin", "server", "none"),
      Tool("get_current_time", "builtin", "server", "none")>>

\* The files of the custom tools directory, in the order of os.listdir.
CustomFiles == <<"browser_research_tool", "example_tools">>

\* The tools a file of the directory defines, in the order of dir(module).
FileTools(f) ==
    IF f = "browser_research_tool"
    THEN <<Tool("browser_interactive_research", "custom", f, "none"),
           Tool("browser_research", "custom", f, "none"),
           Tool("browser_research_multiple", "custom", f, "none"),
           Tool("save_browser_session", "custom", f, "none")>>
    ELSE <<Tool("calculator", "custom", f, "none")>>

\* The tools get_tools() returns for a server of the MCP configuration.
ServerTools(server) ==
    <<Tool("get_record", "mcp", server, "none"),
      Tool("describe_object", "mcp", server, "none")>>

BrowserToolNames ==
    {"browser_research", "browser_research_multiple", "browser_interactive_research"}

\* Variant of load_tools_from_directory in which the first file whose import
\* raises ends the loop: the files after it are not loaded.
RECURSIVE load_tools_until_broken_file(_, _)
load_tools_until_broken_file(filenames, broken) ==
    IF filenames = <<>> \/ Head(filenames) \in broken THEN <<>>
    ELSE FileTools(Head(filenames))
             \o load_tools_until_broken_file(Tail(filenames), broken)

\* CustomToolsLoader.load_tools_from_directory (lines 121-140): a file whose
\* import raises is reported and skipped.
RECURSIVE load_tools_from_directory(_, _)
load_tools_from_directory(filenames, broken) ==
    IF filenames = <<>> THEN <<>>
    ELSE (IF Head(filenames) \in broken THEN <<>> ELSE FileTools(Head(filenames)))
             \o load_tools_from_directory(Tail(filenames), broken)

\* lines 222-250: the browser tools are rebuilt around a function that forces
\* the headless argument; the other custom tools are taken as they are.
wrapped_custom_tools(custom_tools, headless) ==
    [i \in 1..Len(custom_tools) |->
        IF custom_tools[i].name \in BrowserToolNames
        THEN [custom_tools[i] EXCEPT
                 !.wrapper = IF headless THEN "headless=True" ELSE "headless=False",
                 !.annotation = IF headless
                                THEN " (Browser mode: headless/invisible)"
                                ELSE " (Browser mode: visible/slow)"]
        ELSE custom_tools[i]]

\* Variant of wrapped_tools that registers the tools get_tools() returned.
wrapped_tools_registers_original(mcp_tools) == mcp_tools

\* line 372: every MCP tool is rebuilt around wrapped_func.
wrapped_tools(mcp_tools) ==
    [i \in 1..Len(mcp_tools) |-> [mcp_tools[i] EXCEPT !.wrapper = "wrapped_func"]]

\* The tools of the enabled servers, in the order of the servers.
RECURSIVE get_tools(_)
get_tools(servers) ==
    IF servers = {} THEN <<>>
    ELSE LET server == CHOOSE x \in servers : TRUE
         IN ServerTools(server) \o get_tools(servers \ {server})

\* Variant of ComposeTools in which the MCP tools are added before the custom
\* tools.
ComposeTools_mcp_first(headless, broken, servers, tools_from) ==
    BuiltinTools
        \o (IF tools_from # 0 THEN wrapped_tools(get_tools(servers)) ELSE <<>>)
        \o wrapped_custom_tools(load_tools_from_directory(CustomFiles, broken),
                                headless)

\* The list `tools` when create_deep_agent is called (lines 213-373);
\* tools_from is the MCP client get_tools() returned from, 0 when the MCP
\* block was skipped or left by one of its handlers (lines 378-386).
ComposeTools(headless, broken, servers, tools_from) ==
    BuiltinTools
        \o wrapped_custom_tools(load_tools_from_directory(CustomFiles, broken),
                                headless)
        \o (IF tools_from # 0 THEN wrapped_tools(get_tools(servers)) ELSE <<>>)

\* Variant of NewInstance that is always created with the model of Config.
NewInstance_ignores_model(id, b, servers, tools_from) ==
    [id |-> id,
     tools |-> ComposeTools(b.headless, unloadable, servers, tools_from),
     system_prompt |-> IF b.instructions = None
                       THEN DefaultInstructions(b.headless)
                       ELSE b.instructions,
     model |-> DefaultModel,
     headless |-> b.headless,
     mcp_tools_from |-> tools_from]

\* The instance create_deep_agent returns at lines 481-487 for these arguments,
\* with the MCP client its MCP tools were obtained from (0: it has none);
\* servers are the enabled servers the build read at line 255.
NewInstance(id, b, servers, tools_from) ==
    [id |-> id,
     tools |-> ComposeTools(b.headless, unloadable, servers, tools_from),
     system_prompt |-> IF b.instructions = None
                       THEN DefaultInstructions(b.headless)
                       ELSE b.instructions,
     model |-> IF Truthy(b.model) THEN b.model ELSE DefaultModel,
     headless |-> b.headless,
     mcp_tools_from |-> tools_from]

SlotInit ==
    /\ started = FALSE
    /\ agent = NoAgent
    /\ mcp_client = NoClient
    /\ mcp_enabled \in {{}, {"salesforce"}}
    /\ mcp_disabled = {}
    /\ last_call = NoCall
    /\ ws_turns = <<>>
    /\ instances = 0
    /\ clients = 0
    /\ req = [r \in RequestIds |-> IdleRequest]
    /\ slot_log = <<>>
    /\ unloadable \in {{}, {CustomFiles[1]}}

Suspended(r) == req[r].pc = "get_tools"

\* Every request suspended in a build has seen another request act on the slot.
Disturb(rq, r) ==
    [x \in RequestIds |->
        IF x # r /\ rq[x].pc = "get_tools"
        THEN [rq[x] EXCEPT !.alone = FALSE]
        ELSE rq[x]]

\* A completed request: its values, the instance stored when it arrived, the
\* instance it obtained (NoAgent: it failed), and whether it ran with no other
\* request suspended in a build from its arrival to its completion.
LogEntry(values, prior, inst, alone) ==
    [values |-> values, prior |-> prior, inst |-> inst, alone |-> alone]

\* lines 472-490: the agent is created and stored, and the request that ran
\* the build reads the slot without suspending in between (line 496 or 584);
\* if create_deep_agent raises, the slot keeps cur_agent and the request fails
\* (lines 674-675). cur_agent and cur_client are the slot as the build left it.
FinishBuild(r, values, b, servers, tools_from, cur_agent, cur_client, prior, alone, create_ok) ==
    IF create_ok
    THEN LET inst == NewInstance(instances + 1, b, servers, tools_from)
         IN /\ agent' = inst
            /\ mcp_client' = cur_client
            /\ instances' = instances + 1
            /\ req' = [Disturb(req, r) EXCEPT
                          ![r] = [pc |-> "serving", values |-> values,
                                  agent |-> inst]]
            /\ slot_log' = Append(slot_log, LogEntry(values, prior, inst, alone))
    ELSE /\ agent' = cur_agent
         /\ mcp_client' = cur_client
         /\ instances' = instances
         /\ req' = [Disturb(req, r) EXCEPT
                       ![r] = [pc |-> "failed", values |-> values,
                               error |-> "create_deep_agent"]]
         /\ slot_log' = Append(slot_log, LogEntry(values, prior, NoAgent, alone))

\* initialize_agent (lines 205-490) from its entry to its first suspension, at
\* `await self.mcp_client.get_tools()` (line 275), or to its end when no MCP
\* server is enabled or MultiServerMCPClient raises (handler of line 381).
\* cur_agent and cur_client are the slot when initialize_agent is entered,
\* servers what get_enabled_servers() returns at line 255.
initialize_agent(r, values, b, servers, cur_agent, cur_client, alone, client_ok, create_ok) ==
    IF servers # {} /\ client_ok
    THEN /\ create_ok
         /\ agent' = cur_agent
         /\ mcp_client' = clients + 1
         /\ clients' = clients + 1
         /\ req' = [Disturb(req, r) EXCEPT
                       ![r] = [pc |-> "get_tools", values |-> values, build |-> b,
                               servers |-> servers, client |-> clients + 1,
                               prior |-> agent, alone |-> alone]]
         /\ UNCHANGED <<instances, slot_log>>
    ELSE /\ (servers = {} => client_ok)
         /\ clients' = clients
         /\ FinishBuild(r, values, b, servers, 0, cur_agent, cur_client, agent, alone,
                        create_ok)

\* Variant of reinitialize_agent that does not empty the slot before the build.
reinitialize_agent_keeps_slot(r, values, servers, alone, client_ok, create_ok) ==
    initialize_agent(r, values,
                     BuildArgs(values.system_prompt, values.model, values.headless),
                     servers, agent, mcp_client, alone, client_ok, create_ok)

\* reinitialize_agent (lines 498-504): the slot is emptied, the client
\* reference dropped, and initialize_agent runs with the given values.
reinitialize_agent(r, values, servers, alone, client_ok, create_ok) ==
    initialize_agent(r, values,
                     BuildArgs(values.system_prompt, values.model, values.headless),
                     servers, NoAgent, NoClient, alone, client_ok, create_ok)

\* Variant of get_agent that builds a default instance on every call.
get_agent_always_builds(r, values, alone, client_ok, create_ok) ==
    initialize_agent(r, values, DefaultBuild, mcp_enabled, agent, mcp_client, alone,
                     client_ok, create_ok)

\* get_agent (lines 492-496) up to its first suspension or its end.
get_agent(r, values, alone, client_ok, create_ok) ==
    IF agent = NoAgent
    THEN initialize_agent(r, values, DefaultBuild, mcp_enabled, agent, mcp_client,
                          alone, client_ok, create_ok)
    ELSE /\ client_ok /\ create_ok
         /\ req' = [Disturb(req, r) EXCEPT
                       ![r] = [pc |-> "serving", values |-> values, agent |-> agent]]
         /\ slot_log' = Append(slot_log, LogEntry(values, agent, agent, alone))
         /\ UNCHANGED <<agent, mcp_client, instances, clients>>

\* startup_event (lines 898-903): the first build, before any request is
\* served; get_tools may raise (handler of line 381).
startup_event(tools_ok) ==
    /\ ~started
    /\ started' = TRUE
    /\ (mcp_enabled = {} => tools_ok)
    /\ LET client == IF mcp_enabled # {} THEN clients + 1 ELSE NoClient
       IN /\ clients' = IF mcp_enabled # {} THEN clients + 1 ELSE clients
          /\ mcp_client' = client
          /\ agent' = NewInstance(instances + 1, DefaultBuild, mcp_enabled,
                                  IF tools_ok THEN client ELSE 0)
          /\ instances' = instances + 1
    /\ UNCHANGED <<mcp_enabled, mcp_disabled, req, slot_log, unloadable, last_call, ws_turns>>
    /\ UNCHANGED OutsideSlot

\* Variant of chat that reinitializes the agent for every request.
chat_always_reinitializes(r, values, client_ok, create_ok) ==
    /\ started
    /\ req[r].pc = "idle"
    /\ \A x \in RequestIds : x < r => req[x].pc # "idle"
    /\ reinitialize_agent(r, values, mcp_enabled,
                          \A x \in RequestIds : ~Suspended(x), client_ok, create_ok)
    /\ UNCHANGED <<started, mcp_enabled, mcp_disabled, unloadable, last_call, ws_turns>>
    /\ UNCHANGED OutsideSlot

\* POST /api/chat or /api/chat/structured arrives (lines 575-584, 684-692):
\* the handler runs to its first suspension or until it holds its agent.
chat(r, values, client_ok, create_ok) ==
    /\ started
    /\ req[r].pc = "idle"
    /\ \A x \in RequestIds : x < r => req[x].pc # "idle"
    /\ LET alone == \A x \in RequestIds : ~Suspended(x)
       IN IF \/ Truthy(values.system_prompt)
             \/ Truthy(values.model)
             \/ values.headless # TRUE
          THEN reinitialize_agent(r, values, mcp_enabled, alone, client_ok,
                                  create_ok)
          ELSE get_agent(r, values, alone, client_ok, create_ok)
    /\ UNCHANGED <<started, mcp_enabled, mcp_disabled, unloadable, last_call, ws_turns>>
    /\ UNCHANGED OutsideSlot

\* `await self.mcp_client.get_tools()` returns or raises (lines 275, 381): the
\* build of request r resumes and runs to its end.
get_tools_returns(r, tools_ok, create_ok) ==
    /\ req[r].pc = "get_tools"
    /\ clients' = clients
    /\ FinishBuild(r, req[r].values, req[r].build, req[r].servers,
                   IF tools_ok THEN req[r].client ELSE 0,
                   agent, mcp_client, req[r].prior, req[r].alone, create_ok)
    /\ UNCHANGED <<started, mcp_enabled, mcp_disabled, unloadable, last_call, ws_turns>>
    /\ UNCHANGED OutsideSlot

-----------------------------------------------------------------------------
(* The management endpoints of the MCP configuration (lines 824-868)       *)

\* The server names the endpoints are called with.
Servers == {"salesforce", "github"}

\* What a management request rebuilds with: reinitialize_agent() is called
\* with no argument (lines 843, 861), so with the defaults of line 498.
ManagementValues(op) ==
    [op |-> op, system_prompt |-> None, model |-> None, headless |-> TRUE]

\* The MCP clients that were created and not closed: the source closes none
\* (line 273 creates them, lines 501-503 only drop the reference).
OpenClients == {c \in 1..clients : TRUE}

\* POST /api/mcp/servers/{server} (lines 824-849): the entry is written and
\* saved, and the agent is rebuilt when the entry is enabled.
add_mcp_server(r, server, enabled, client_ok, create_ok) ==
    /\ started
    /\ req[r].pc = "idle"
    /\ \A x \in RequestIds : x < r => req[x].pc # "idle"
    /\ LET values == ManagementValues("add_mcp_server")
           servers == IF enabled THEN mcp_enabled \cup {server}
                      ELSE mcp_enabled \ {server}
           alone == \A x \in RequestIds : ~Suspended(x)
       IN /\ mcp_enabled' = servers
          /\ mcp_disabled' = IF enabled THEN mcp_disabled \ {server}
                             ELSE mcp_disabled \cup {server}
          /\ IF enabled
             THEN reinitialize_agent(r, values, servers, alone, client_ok, create_ok)
             ELSE /\ client_ok /\ create_ok
                  /\ req' = [Disturb(req, r) EXCEPT
                                ![r] = [pc |-> "done", values |-> values]]
                  /\ UNCHANGED <<agent, mcp_client, instances, clients, slot_log>>
    /\ UNCHANGED <<started, unloadable, last_call, ws_turns>>
    /\ UNCHANGED OutsideSlot

\* DELETE /api/mcp/servers/{server} (lines 851-868): a configured entry is
\* removed and the agent rebuilt; for a name that is not configured the
\* HTTPException(404) of line 865 is raised inside the try block, caught at
\* line 867 and replaced by a response of status 500.
delete_mcp_server(r, server, client_ok, create_ok) ==
    /\ started
    /\ req[r].pc = "idle"
    /\ \A x \in RequestIds : x < r => req[x].pc # "idle"
    /\ LET values == ManagementValues("delete_mcp_server")
           alone == \A x \in RequestIds : ~Suspended(x)
       IN IF server \in mcp_enabled \cup mcp_disabled
          THEN /\ mcp_enabled' = mcp_enabled \ {server}
               /\ mcp_disabled' = mcp_disabled \ {server}
               /\ reinitialize_agent(r, values, mcp_enabled \ {server}, alone,
                                     client_ok, create_ok)
          ELSE /\ client_ok /\ create_ok
               /\ req' = [Disturb(req, r) EXCEPT
                             ![r] = [pc |-> "failed", values |-> values,
                                     status |-> 500,
                                     error |-> "404: Server not found"]]
               /\ UNCHANGED <<agent, mcp_client, mcp_enabled, mcp_disabled,
                              instances, clients, slot_log>>
    /\ UNCHANGED <<started, unloadable, last_call, ws_turns>>
    /\ UNCHANGED OutsideSlot

\* The instructions POST /api/config may carry (ConfigRequest, lines 552-555).
ConfigInstructions == {None, "Q"}

\* What update_config rebuilds with (lines 811-814): the instructions and
\* the mode of the request; model is not passed, so it has the default of
\* line 498.
UpdateValues(instructions, headless) ==
    [op |-> "update_config", system_prompt |-> instructions, model |-> None, headless |-> headless]

\* POST /api/config (lines 807-817): the agent is rebuilt.
update_config(r, instructions, headless, client_ok, create_ok) ==
    /\ started
    /\ req[r].pc = "idle"
    /\ \A x \in RequestIds : x < r => req[x].pc # "idle"
    /\ reinitialize_agent(r, UpdateValues(instructions, headless), mcp_enabled,
                          \A x \in RequestIds : ~Suspended(x), client_ok, create_ok)
    /\ UNCHANGED <<started, mcp_enabled, mcp_disabled, unloadable, last_call, ws_turns>>
    /\ UNCHANGED OutsideSlot

-----------------------------------------------------------------------------
(* The WebSocket endpoint /ws/chat (lines 758-796)                         *)

\* What the connection obtains its agent with: get_agent() (line 764).
WebsocketValues ==
    [op |-> "websocket", system_prompt |-> None, model |-> None, headless |-> TRUE]

\* Request r is an open WebSocket connection that holds its agent.
OpenSocket(r) ==
    /\ req[r].pc = "serving"
    /\ "op" \in DOMAIN req[r].values
    /\ req[r].values.op = "websocket"

\* A client connects (lines 761-764): the connection is accepted and the
\* handler obtains the agent once, before its receive loop.
websocket_chat(r, client_ok, create_ok) ==
    /\ started
    /\ req[r].pc = "idle"
    /\ \A x \in RequestIds : x < r => req[x].pc # "idle"
    /\ get_agent(r, WebsocketValues, \A x \in RequestIds : ~Suspended(x),
                 client_ok, create_ok)
    /\ UNCHANGED <<started, mcp_enabled, mcp_disabled, unloadable, last_call, ws_turns>>
    /\ UNCHANGED OutsideSlot

\* A message arrives on the open connection (lines 766-787): the turn is run
\* by `agent`, the local variable of the handler assigned at line 764.
websocket_receive(r) ==
    /\ OpenSocket(r)
    /\ Len(ws_turns) < MaxMessages
    /\ ws_turns' = Append(ws_turns,
                          [conn |-> r, used |-> req[r].agent, stored |-> agent])
    /\ UNCHANGED <<started, agent, mcp_client, mcp_enabled, mcp_disabled, instances,
                   clients, req, slot_log, unloadable, last_call>>
    /\ UNCHANGED OutsideSlot

-----------------------------------------------------------------------------
(* Calls of the custom tools (src/custom_tools), through the function the  *)
(* tool was registered around (lines 226-247)                              *)

\* The parameters of the function a custom tool is made from
\* (browser_research_tool.py lines 193-198, 234-240, 301, 349-353;
\* example_tools.py line 20).
OriginalParams(name) ==
    CASE name = "browser_research" ->
            {"url", "wait_for_selector", "use_session", "headless"}
      [] name = "browser_research_multiple" ->
            {"urls", "wait_for_selector", "use_session", "rate_limit_delay",
             "headless"}
      [] name = "browser_interactive_research" ->
            {"initial_url", "task_description", "manual_interaction_time"}
      [] name = "save_browser_session" -> {}
      [] OTHER -> {"a", "b", "operation"}

\* Its parameters that have no default value.
RequiredParams(name) ==
    CASE name = "browser_research" -> {"url"}
      [] name = "browser_research_multiple" -> {"urls"}
      [] name = "browser_interactive_research" -> {"initial_url", "task_description"}
      [] name = "save_browser_session" -> {}
      [] OTHER -> {"a", "b"}

\* What the agent may say about headless in a call.
GivenHeadless == {"omitted", "True", "False"}

\* The keyword arguments the tool's function is called with: the required
\* parameters and, when the agent gave it and args_schema has it, headless.
AgentKwargs(name, given) ==
    LET keys == RequiredParams(name) \cup
                    (IF given # "omitted" /\ "headless" \in OriginalParams(name)
                     THEN {"headless"} ELSE {})
    IN [k \in keys |-> IF k = "headless" THEN given = "True" ELSE k]

\* The browser a tool launches (browser_research_tool.py lines 91, 215, 266,
\* 312, 368): the browser_research tools follow their headless parameter, the
\* others always launch a visible browser.
LaunchedHeadless(name, kwargs) ==
    IF name \in {"browser_research", "browser_research_multiple"}
    THEN IF "headless" \in DOMAIN kwargs THEN kwargs["headless"] ELSE FALSE
    ELSE FALSE

\* original(**kwargs): a keyword the function does not have is a TypeError.
CallOriginal(name, kwargs) ==
    IF DOMAIN kwargs \subseteq OriginalParams(name)
    THEN [pc |-> "ran", received |-> kwargs,
          launched_headless |-> LaunchedHeadless(name, kwargs)]
    ELSE [pc |-> "TypeError"]

\* Variant of browser_wrapped_func that gives headless_val only when the
\* agent did not say.
browser_wrapped_func_keeps_given(name, kwargs, headless_val) ==
    CallOriginal(name,
        [k \in DOMAIN kwargs \cup {"headless"} |->
            IF k \in DOMAIN kwargs THEN kwargs[k] ELSE headless_val])

\* create_wrapped_browser_tool.wrapped_func (lines 228-235).
browser_wrapped_func(name, kwargs, headless_val) ==
    CallOriginal(name,
        [k \in DOMAIN kwargs \cup {"headless"} |->
            IF k = "headless" THEN headless_val ELSE kwargs[k]])

\* The function a registered tool runs.
RunTool(tool, kwargs) ==
    CASE tool.wrapper = "headless=True" -> browser_wrapped_func(tool.name, kwargs, TRUE)
      [] tool.wrapper = "headless=False" -> browser_wrapped_func(tool.name, kwargs, FALSE)
      [] OTHER -> CallOriginal(tool.name, kwargs)

\* The agent calls the i-th tool of the stored instance, a custom tool.
call_tool(i, given) ==
    /\ agent # NoAgent
    /\ i \in 1..Len(agent.tools)
    /\ agent.tools[i].kind = "custom"
    /\ LET tool == agent.tools[i]
           kwargs == AgentKwargs(tool.name, given)
       IN last_call' = [pc |-> "called", tool |-> tool, given |-> given,
                        instance_headless |-> agent.headless,
                        outcome |-> RunTool(tool, kwargs)]
    /\ UNCHANGED <<started, agent, mcp_client, mcp_enabled, mcp_disabled, instances,
                   clients, req, slot_log, unloadable, ws_turns>>
    /\ UNCHANGED OutsideSlot

-----------------------------------------------------------------------------
(* Properties of the agent slot                                            *)

\* A request's values differ from the values an instance was built with; an
\* unspecified (None) system_prompt or model does not count.
Differs(values, inst) ==
    \/ values.headless # inst.headless
    \/ values.model # None /\ values.model # inst.model
    \/ values.system_prompt # None /\ values.system_prompt # inst.system_prompt

\* The instance was built with the values the request supplies.
BuiltWith(inst, values) == ~Differs(values, inst)

\* C4: of two chat requests that follow each other on the slot with no other
\* slot operation in between, the second is served by the instance of the
\* first when both carry the same system_prompt, model and headless values,
\* and by a new instance when its values differ from those the stored
\* instance was built with.
C4_RebuildOnlyOnChange ==
    \A i \in 1..(Len(slot_log) - 1) :
        LET first == slot_log[i]
            second == slot_log[i + 1]
        IN (/\ first.alone /\ second.alone
            /\ first.inst # NoAgent /\ second.inst # NoAgent) =>
              /\ first.values = second.values => second.inst = first.inst
              /\ Differs(second.values, first.inst) => second.inst # first.inst

\* C5: a request whose values differ from those the stored instance was built
\* with is served by a new instance built with the request's values; this
\* includes headless=true arriving at an instance built with headless=false.
C5_RebuildOnAnyDifference ==
    \A i \in 1..Len(slot_log) :
        LET e == slot_log[i]
        IN (/\ e.alone /\ e.prior # NoAgent /\ e.inst # NoAgent
            /\ Differs(e.values, e.prior)) =>
              /\ e.inst # e.prior
              /\ BuiltWith(e.inst, e.values)

\* The request makes chat() call reinitialize_agent (line 577).
Overrides(values) ==
    \/ Truthy(values.system_prompt)
    \/ Truthy(values.model)
    \/ values.headless # TRUE

\* The request leaves system_prompt and model unspecified and headless at
\* its default.
PlainRequest(values) ==
    /\ values.system_prompt = None
    /\ values.model = None
    /\ values.headless = TRUE

\* A request completes in this step.
Completes == Len(slot_log') = Len(slot_log) + 1

FailedRequests(rq) == {r \in RequestIds : rq[r].pc = "failed"}

\* The entry is a rebuild that failed with no other request in a build.
FailedRebuild(e) == e.inst = NoAgent /\ Overrides(e.values) /\ e.alone

\* C11: when the build of a rebuild (reinitialize_agent) fails, the slot is
\* left empty and nothing is stored, exactly that request fails, with the
\* fault of the build; the next request finds the slot empty, runs a fresh
\* build and, if the build succeeds, the new instance is stored and returned.
C11_RebuildFailureLeavesSlotEmpty ==
    [][Completes =>
         LET e == Last(slot_log')
         IN /\ FailedRebuild(e) =>
                  /\ agent' = NoAgent
                  /\ instances' = instances
                  /\ \E r \in RequestIds :
                        /\ FailedRequests(req') = FailedRequests(req) \cup {r}
                        /\ r \notin FailedRequests(req)
                        /\ req'[r].error = "create_deep_agent"
            /\ (slot_log # <<>> /\ FailedRebuild(Last(slot_log)) /\ e.alone) =>
                  /\ e.prior = NoAgent
                  /\ e.inst # NoAgent =>
                        /\ e.inst.id = instances + 1
                        /\ instances' = instances + 1
                        /\ agent' = e.inst
                        /\ \E r \in RequestIds :
                              /\ req'[r].pc = "serving"
                              /\ req[r].pc # "serving"
                              /\ req'[r].agent = e.inst]_vars

\* A rebuild failed, and the next request was served by a fresh build.
C11_Witness ==
    /\ Len(slot_log) >= 2
    /\ FailedRebuild(slot_log[1])
    /\ slot_log[2].alone
    /\ slot_log[2].prior = NoAgent
    /\ slot_log[2].inst # NoAgent
    /\ agent = slot_log[2].inst

\* The names of the tools of an instance that come from a provider.
NamesFrom(inst, kind, origin) ==
    {inst.tools[i].name :
        i \in {j \in 1..Len(inst.tools) :
                 inst.tools[j].kind = kind /\ inst.tools[j].origin = origin}}

NamesOf(tools) == {tools[i].name : i \in 1..Len(tools)}

\* Every provider contributes all of its tools to the instance, or none if
\* it failed.
ProvidersDegrade(inst) ==
    /\ NamesFrom(inst, "builtin", "server") = NamesOf(BuiltinTools)
    /\ \A i \in 1..Len(CustomFiles) :
          NamesFrom(inst, "custom", CustomFiles[i]) =
              IF CustomFiles[i] \in unloadable THEN {}
              ELSE NamesOf(FileTools(CustomFiles[i]))
    /\ \A server \in mcp_enabled :
          NamesFrom(inst, "mcp", server) =
              IF inst.mcp_tools_from = 0 THEN {} ELSE NamesOf(ServerTools(server))

\* C12: a build in which a tool provider fails (the MCP client cannot be
\* created, get_tools raises, the adapter is missing, a custom tool file does
\* not import) still stores an instance: the only fault of a build is that of
\* create_deep_agent; in every instance built the failing provider has no
\* tool and every other provider has all of its tools.
C12_ProviderFailureDegrades ==
    /\ \A r \in RequestIds :
          /\ req[r].pc = "failed" => req[r].error = "create_deep_agent"
          /\ req[r].pc = "serving" => ProvidersDegrade(req[r].agent)
    /\ agent # NoAgent => ProvidersDegrade(agent)

\* An instance is stored that was built while a custom tool file did not
\* import and get_tools raised: it has the built-in tools and the tools of
\* the other file.
C12_Witness ==
    /\ agent # NoAgent
    /\ unloadable # {}
    /\ mcp_enabled # {}
    /\ agent.mcp_tools_from = 0
    /\ mcp_client # NoClient
    /\ NamesFrom(agent, "custom", CustomFiles[2]) # {}

\* C13: get_agent callers that return an instance, with every rebuild
\* completed before they arrived, all return the same instance, also when
\* their own default builds overlapped on an empty slot.
C13_GetIdempotentUnderConcurrency ==
    \A i, j \in 1..Len(slot_log) :
        (/\ i < j
         /\ ~Overrides(slot_log[i].values) /\ ~Overrides(slot_log[j].values)
         /\ slot_log[i].inst # NoAgent /\ slot_log[j].inst # NoAgent
         /\ \A k \in 1..Len(slot_log) :
               Overrides(slot_log[k].values) => k < i /\ slot_log[k].alone
         /\ \A r \in RequestIds : Suspended(r) => ~Overrides(req[r].values)) =>
            slot_log[i].inst = slot_log[j].inst

\* C14: a get_agent call on a non-empty slot returns the stored instance,
\* builds nothing and leaves the slot as it is; on an empty slot it returns a
\* new instance built with the default instructions, the default model and
\* headless=True, which is then the stored one; successive get_agent calls
\* that do not overlap return the same instance.
C14_GetReturnsStoredOrDefault ==
    [][(Completes /\ ~Overrides(Last(slot_log').values)) =>
         LET e == Last(slot_log')
         IN /\ e.prior # NoAgent =>
                  /\ e.inst = e.prior
                  /\ agent' = agent
                  /\ instances' = instances
            /\ (e.prior = NoAgent /\ e.inst # NoAgent) =>
                  /\ e.inst.system_prompt = DefaultInstructions(TRUE)
                  /\ e.inst.model = DefaultModel
                  /\ e.inst.headless = TRUE
                  /\ e.inst.id = instances + 1
                  /\ agent' = e.inst
            /\ (/\ slot_log # <<>>
                /\ ~Overrides(Last(slot_log).values)
                /\ e.alone /\ Last(slot_log).alone
                /\ e.inst # NoAgent /\ Last(slot_log).inst # NoAgent) =>
                  e.inst = Last(slot_log).inst]_vars

\* A get_agent call built the default instance on an empty slot and the next
\* get_agent call returned that instance.
C14_Witness ==
    \E i \in 2..Len(slot_log) :
        /\ ~Overrides(slot_log[i - 1].values) /\ ~Overrides(slot_log[i].values)
        /\ slot_log[i - 1].alone /\ slot_log[i].alone
        /\ slot_log[i - 1].prior = NoAgent
        /\ slot_log[i - 1].inst # NoAgent
        /\ slot_log[i].prior = slot_log[i - 1].inst
        /\ slot_log[i].inst = slot_log[i - 1].inst

C33_OverridesServedByOwnBuild ==
    [][\A r \in RequestIds :
         (/\ req[r].pc # "serving" /\ req'[r].pc = "serving"
          /\ Overrides(req'[r].values)) =>
            LET inst == req'[r].agent
                values == req'[r].values
            IN /\ inst # NoAgent
               /\ inst.id = instances + 1
               /\ instances' = instances + 1
               /\ agent' = inst
               /\ inst.headless = values.headless
               /\ inst.model = IF Truthy(values.model) THEN values.model
                                ELSE DefaultModel
               /\ inst.system_prompt =
                     IF values.system_prompt = None
                     THEN DefaultInstructions(values.headless)
                     ELSE values.system_prompt]_vars

\* Two requests with different overrides were both served although their
\* builds overlapped, the one that arrived first finishing last.
C33_Witness ==
    \E r1, r2 \in RequestIds :
        /\ r1 < r2
        /\ req[r1].pc = "serving" /\ req[r2].pc = "serving"
        /\ Overrides(req[r1].values) /\ Overrides(req[r2].values)
        /\ req[r1].values # req[r2].values
        /\ req[r1].values.model # None
        /\ req[r1].agent.id > req[r2].agent.id
        /\ agent = req[r1].agent

\* C34: whenever no build is suspended, the MCP client of the slot is the
\* client the MCP tools of the stored instance were obtained from, and there
\* is none exactly when the stored instance has no MCP tools.
C34_ClientBelongsToStoredInstance ==
    (agent # NoAgent /\ \A r \in RequestIds : ~Suspended(r)) =>
        /\ mcp_client = agent.mcp_tools_from
        /\ mcp_client = NoClient <=>
              \A i \in 1..Len(agent.tools) : agent.tools[i].kind # "mcp"

\* Two builds overlapped and finished in the order opposite to the one in
\* which they started, each with its MCP tools, and no build is suspended.
C34_Witness ==
    /\ \A r \in RequestIds : ~Suspended(r)
    /\ \E r1, r2 \in RequestIds :
          /\ r1 < r2
          /\ req[r1].pc = "serving" /\ req[r2].pc = "serving"
          /\ req[r1].agent.id > req[r2].agent.id
          /\ req[r1].agent.mcp_tools_from # 0
          /\ req[r2].agent.mcp_tools_from # 0
          /\ req[r1].agent.mcp_tools_from < req[r2].agent.mcp_tools_from
          /\ agent = req[r1].agent

\* The instances the slot or a request holds.
HeldInstances ==
    (IF agent # NoAgent THEN {agent} ELSE {})
        \cup {req[r].agent : r \in {x \in RequestIds : req[x].pc = "serving"}}

\* C22: in every instance, every tool that comes from an MCP server is
\* registered around wrapped_func, the function that calls the original tool
\* and passes its result through the size check; no tool of an MCP server is
\* registered as get_tools() returned it, and no built-in or custom tool is
\* registered around wrapped_func.
C22_McpToolsOnlyWrapped ==
    \A inst \in HeldInstances :
        \A i \in 1..Len(inst.tools) :
            inst.tools[i].kind = "mcp" <=> inst.tools[i].wrapper = "wrapped_func"

\* A stored instance has MCP tools next to built-in and custom tools.
C22_Witness ==
    /\ agent # NoAgent
    /\ agent.mcp_tools_from # 0
    /\ \E i \in 1..Len(agent.tools) : agent.tools[i].kind = "mcp"
    /\ \E i \in 1..Len(agent.tools) : agent.tools[i].kind = "custom"
    /\ \E i \in 1..Len(agent.tools) : agent.tools[i].kind = "builtin"

\* The names of a list of tools, in the order of the list.
NameSeq(tools) == [i \in 1..Len(tools) |-> tools[i].name]

\* The tools of an instance that come from one kind of provider, in order.
OfKind(inst, kind) == SelectSeq(inst.tools, LAMBDA t : t.kind = kind)

KindRank(kind) == CASE kind = "builtin" -> 1 [] kind = "custom" -> 2 [] OTHER -> 3

\* C24: in every instance the tools stand in the order built-in, custom
\* directory, MCP; the tools of one provider keep the order the provider
\* gave them in, and no tool a provider gave is missing.
C24_ToolsInProviderOrder ==
    \A inst \in HeldInstances :
        /\ \A i, j \in 1..Len(inst.tools) :
              i < j => KindRank(inst.tools[i].kind) <= KindRank(inst.tools[j].kind)
        /\ NameSeq(OfKind(inst, "builtin")) = NameSeq(BuiltinTools)
        /\ NameSeq(OfKind(inst, "custom")) =
              NameSeq(load_tools_from_directory(CustomFiles, unloadable))
        /\ NameSeq(OfKind(inst, "mcp")) =
              IF inst.mcp_tools_from = 0 THEN <<>>
              ELSE NameSeq(get_tools(mcp_enabled))

\* A stored instance has the tools of the three providers, with both files
\* of the custom directory loaded.
C24_Witness ==
    /\ agent # NoAgent
    /\ unloadable = {}
    /\ Len(OfKind(agent, "builtin")) = Len(BuiltinTools)
    /\ Len(OfKind(agent, "custom")) > Len(FileTools(CustomFiles[1]))
    /\ Len(OfKind(agent, "mcp")) > 1

\* C23: a browser tool (browser_research, browser_research_multiple,
\* browser_interactive_research) of an instance built with headless = h has
\* the browser mode appended to its description, and every call of it runs
\* the original function with headless = h, whatever the agent gave; every
\* other custom tool is registered as the directory gave it.
C23_BrowserToolsRunInForcedMode ==
    /\ \A inst \in HeldInstances :
          \A i \in 1..Len(inst.tools) :
              LET tool == inst.tools[i]
              IN tool.kind = "custom" =>
                    IF tool.name \in BrowserToolNames
                    THEN tool.annotation =
                            IF inst.headless
                            THEN " (Browser mode: headless/invisible)"
                            ELSE " (Browser mode: visible/slow)"
                    ELSE tool = Tool(tool.name, "custom", tool.origin, "none")
    /\ (last_call.pc = "called" /\ last_call.tool.name \in BrowserToolNames) =>
          /\ last_call.outcome.pc = "ran"
          /\ last_call.outcome.received["headless"] = last_call.instance_headless

\* browser_research was called with headless given against the mode of the
\* instance, and ran in the mode of the instance.
C23_Witness ==
    /\ last_call.pc = "called"
    /\ last_call.tool.name = "browser_research"
    /\ last_call.given = "True"
    /\ ~last_call.instance_headless
    /\ last_call.outcome.pc = "ran"
    /\ ~last_call.outcome.launched_headless

\* No build is suspended and no completed request overlapped another one.
Quiescent ==
    /\ \A r \in RequestIds : ~Suspended(r)
    /\ \A i \in 1..Len(slot_log) : slot_log[i].alone

\* C26: with no request under way, the tools of the stored instance (one
\* whose MCP provider answered) are exactly the built-in tools, the custom
\* tools that load and the tools of the MCP servers that are enabled now:
\* nothing is left of earlier builds or of a server that was deleted or
\* disabled.
C26_ToolsetFollowsConfiguration ==
    (agent # NoAgent /\ Quiescent /\ agent.mcp_tools_from # 0) =>
        /\ NameSeq(OfKind(agent, "builtin")) = NameSeq(BuiltinTools)
        /\ NameSeq(OfKind(agent, "custom")) =
              NameSeq(load_tools_from_directory(CustomFiles, unloadable))
        /\ \A server \in Servers :
              NamesFrom(agent, "mcp", server) =
                  IF server \in mcp_enabled THEN NamesOf(ServerTools(server)) ELSE {}

\* C27: every MCP client that is open is the one the slot refers to, so
\* that at most one is open and none is once the reference is dropped.
C27_DiscardedClientIsClosed ==
    /\ OpenClients \subseteq {mcp_client}
    /\ Cardinality(OpenClients) <= 1

\* The chat values of the requests that arrive between management requests.
ConfigChatValues ==
    {[system_prompt |-> None, model |-> None, headless |-> TRUE],
     [system_prompt |-> None, model |-> None, headless |-> FALSE]}

ConfigNext ==
    \/ \E tools_ok \in BOOLEAN : startup_event(tools_ok)
    \/ \E r \in RequestIds, values \in ConfigChatValues,
          client_ok \in BOOLEAN, create_ok \in BOOLEAN :
            chat(r, values, client_ok, create_ok)
    \/ \E r \in RequestIds, server \in Servers, enabled \in BOOLEAN,
          client_ok \in BOOLEAN, create_ok \in BOOLEAN :
            add_mcp_server(r, server, enabled, client_ok, create_ok)
    \/ \E r \in RequestIds, server \in Servers,
          client_ok \in BOOLEAN, create_ok \in BOOLEAN :
            delete_mcp_server(r, server, client_ok, create_ok)
    \/ \E r \in RequestIds, tools_ok \in BOOLEAN, create_ok \in BOOLEAN :
            get_tools_returns(r, tools_ok, create_ok)

\* C36: every call of a tool registered around the forcing function gives
\* the original function only parameters it has, so that the original runs
\* and the call does not fail on the injected headless; this holds for
\* browser_research, browser_research_multiple and
\* browser_interactive_research.
C36_ForcedCallAccepted ==
    (last_call.pc = "called"
        /\ last_call.tool.wrapper \in {"headless=True", "headless=False"}) =>
            /\ last_call.outcome.pc = "ran"
            /\ DOMAIN last_call.outcome.received
                  \subseteq OriginalParams(last_call.tool.name)

\* browser_research_multiple was called through the forcing function with
\* headless omitted, and ran.
C36_Witness ==
    /\ last_call.pc = "called"
    /\ last_call.tool.name = "browser_research_multiple"
    /\ last_call.tool.wrapper = "headless=False"
    /\ last_call.given = "omitted"
    /\ last_call.outcome.pc = "ran"
    /\ "headless" \in DOMAIN last_call.outcome.received

\* C37: every turn on a WebSocket connection is run by the instance that is
\* stored in the slot when the turn starts: after a rebuild by another
\* request, the next message on an open connection is served by the new
\* instance.
C37_SocketTurnRunsOnStoredInstance ==
    \A i \in 1..Len(ws_turns) :
        ws_turns[i].stored # NoAgent => ws_turns[i].used = ws_turns[i].stored

\* A turn on an open connection started after another request had rebuilt
\* the instance.
C37_Witness ==
    \E i \in 1..Len(ws_turns) :
        /\ ws_turns[i].stored # NoAgent
        /\ ws_turns[i].stored.id > 1
        /\ \E j \in 1..Len(slot_log) :
              /\ Overrides(slot_log[j].values)
              /\ slot_log[j].inst = ws_turns[i].stored

\* WebSocket connections next to chat requests.
SocketNext ==
    \/ \E tools_ok \in BOOLEAN : startup_event(tools_ok)
    \/ \E r \in RequestIds, values \in ConfigChatValues,
          client_ok \in BOOLEAN, create_ok \in BOOLEAN :
            chat(r, values, client_ok, create_ok)
    \/ \E r \in RequestIds, client_ok \in BOOLEAN, create_ok \in BOOLEAN :
            websocket_chat(r, client_ok, create_ok)
    \/ \E r \in RequestIds : websocket_receive(r)
    \/ \E r \in RequestIds, tools_ok \in BOOLEAN, create_ok \in BOOLEAN :
            get_tools_returns(r, tools_ok, create_ok)

\* A management request r that completed in this step without a build.
CompletedWithoutBuild(r) ==
    /\ req[r].pc = "idle"
    /\ req'[r].pc = "done"

\* The request logged in this step is a management request of one of ops
\* that ran alone and replaced a stored instance by a new one.
Rebuilt(ops) ==
    /\ Len(slot_log') = Len(slot_log) + 1
    /\ LET e == slot_log'[Len(slot_log')]
       IN /\ "op" \in DOMAIN e.values
          /\ e.values.op \in ops
          /\ e.alone
          /\ e.prior # NoAgent
          /\ e.inst # NoAgent

\* C38: a management request keeps the session parameters it does not
\* name: the instance rebuilt for an added or deleted MCP server has the
\* system prompt, the model and the mode of the instance stored before,
\* the instance rebuilt by update_config has the model of the instance
\* stored before, and adding a disabled server leaves the slot as it was.
C38_ManagementKeepsUnnamedParameters ==
    [][/\ Rebuilt({"add_mcp_server", "delete_mcp_server"}) =>
              LET e == slot_log'[Len(slot_log')]
              IN /\ e.inst.system_prompt = e.prior.system_prompt
                 /\ e.inst.model = e.prior.model
                 /\ e.inst.headless = e.prior.headless
       /\ Rebuilt({"update_config"}) =>
              LET e == slot_log'[Len(slot_log')]
              IN /\ e.inst.model = e.prior.model
                 /\ e.inst.headless = e.values.headless
       /\ \A r \in RequestIds :
              CompletedWithoutBuild(r) =>
                  /\ agent' = agent
                  /\ mcp_client' = mcp_client
                  /\ instances' = instances]_vars

\* A management request rebuilt an instance that a chat request had built
\* with a system prompt, a model and the visible mode of its own.
C38_Witness ==
    \E i \in 1..Len(slot_log) :
        LET e == slot_log[i]
        IN /\ "op" \in DOMAIN e.values
           /\ e.values.op \in {"add_mcp_server", "delete_mcp_server", "update_config"}
           /\ e.alone
           /\ e.prior # NoAgent
           /\ e.inst # NoAgent
           /\ e.prior.model # DefaultModel
           /\ e.prior.system_prompt = "P"
           /\ ~e.prior.headless

\* The chat values of the requests that arrive between management requests
\* of a session with parameters of its own.
ManageChatValues ==
    {[system_prompt |-> None, model |-> None, headless |-> TRUE],
     [system_prompt |-> "P", model |-> "openai:gpt-4", headless |-> FALSE]}

\* The management endpoints next to chat requests.
ManageNext ==
    \/ \E tools_ok \in BOOLEAN : startup_event(tools_ok)
    \/ \E r \in RequestIds, values \in ManageChatValues,
          client_ok \in BOOLEAN, create_ok \in BOOLEAN :
            chat(r, values, client_ok, create_ok)
    \/ \E r \in RequestIds, instructions \in ConfigInstructions, headless \in BOOLEAN,
          client_ok \in BOOLEAN, create_ok \in BOOLEAN :
            update_config(r, instructions, headless, client_ok, create_ok)
    \/ \E r \in RequestIds, server \in Servers, enabled \in BOOLEAN,
          client_ok \in BOOLEAN, create_ok \in BOOLEAN :
            add_mcp_server(r, server, enabled, client_ok, create_ok)
    \/ \E r \in RequestIds, server \in Servers,
          client_ok \in BOOLEAN, create_ok \in BOOLEAN :
            delete_mcp_server(r, server, client_ok, create_ok)
    \/ \E r \in RequestIds, tools_ok \in BOOLEAN, create_ok \in BOOLEAN :
            get_tools_returns(r, tools_ok, create_ok)

\* Request r is answered in this step as a DELETE of a name that is not in
\* the configuration.
DeleteOfMissing(r) ==
    /\ req[r].pc = "idle"
    /\ req'[r].pc = "failed"
    /\ "status" \in DOMAIN req'[r]

\* Request r is taken up in this step as a DELETE of a name that is in the
\* configuration.
DeleteOfPresent(r) ==
    /\ req[r].pc = "idle"
    /\ req'[r].pc # "idle"
    /\ "op" \in DOMAIN req'[r].values
    /\ req'[r].values.op = "delete_mcp_server"
    /\ "status" \notin DOMAIN req'[r]

\* C39: deleting a name that is not configured is answered with status 404
\* and changes neither the configuration nor the stored instance nor the
\* MCP client; deleting a configured name removes that entry and no other
\* and starts a rebuild, whose instance is the one stored and served.
C39_DeleteMissingIsNotFound ==
    [][\A r \in RequestIds :
          /\ DeleteOfMissing(r) =>
                 /\ req'[r].status = 404
                 /\ mcp_enabled' = mcp_enabled
                 /\ mcp_disabled' = mcp_disabled
                 /\ agent' = agent
                 /\ mcp_client' = mcp_client
          /\ DeleteOfPresent(r) =>
                 /\ \E server \in mcp_enabled \cup mcp_disabled :
                       /\ mcp_enabled' = mcp_enabled \ {server}
                       /\ mcp_disabled' = mcp_disabled \ {server}
                 /\ req'[r].pc \in {"get_tools", "serving", "failed"}
                 /\ req'[r].pc = "serving" =>
                       /\ agent'.id = instances + 1
                       /\ req'[r].agent = agent'
                 /\ req'[r].pc = "get_tools" => agent' = NoAgent]_vars

\* A DELETE of a name that is not configured was answered, and one of a
\* configured name was served by a rebuilt instance.
C39_Witness ==
    /\ \E r \in RequestIds : req[r].pc = "failed" /\ "status" \in DOMAIN req[r]
    /\ \E r \in RequestIds :
          /\ req[r].pc = "serving"
          /\ "op" \in DOMAIN req[r].values
          /\ req[r].values.op = "delete_mcp_server"

\* The server with its custom tools and no MCP server.
BrowserNext ==
    \/ \E tools_ok \in BOOLEAN : startup_event(tools_ok)
    \/ \E r \in RequestIds, values \in RequestValues,
          client_ok \in BOOLEAN, create_ok \in BOOLEAN :
            chat(r, values, client_ok, create_ok)
    \/ \E i \in 1..(Len(BuiltinTools) + 5), given \in GivenHeadless : call_tool(i, given)

SlotNext ==
    \/ \E tools_ok \in BOOLEAN : startup_event(tools_ok)
    \/ \E r \in RequestIds, values \in RequestValues,
          client_ok \in BOOLEAN, create_ok \in BOOLEAN :
            chat(r, values, client_ok, create_ok)
    \/ \E r \in RequestIds, tools_ok \in BOOLEAN, create_ok \in BOOLEAN :
            get_tools_returns(r, tools_ok, create_ok)

\* No turn is running.
MapperIdle == MapperInit

\* The server before startup, with no MCP server configured and every custom
\* tool file loadable.
SlotIdle == SlotInit /\ mcp_enabled = {} /\ unloadable = {}

-----------------------------------------------------------------------------
(* Tool results                                                            *)
(* A string is the first `len` characters of a text `src`, followed by     *)
(* `dots` ellipsis markers; src is plain text, or the JSON text of a value. *)
(* Mappings keep the order of their keys; every key has four characters.    *)

Min(a, b) == IF a < b THEN a ELSE b

PlainStr(n) == [kind |-> "str", src |-> [plain |-> TRUE], len |-> n, dots |-> 0]
Dict(items) == [kind |-> "dict", items |-> items]
List(items) == [kind |-> "list", items |-> items]
Tuple(items) == [kind |-> "tuple", items |-> items]
Item(k, v) == [key |-> k, value |-> v]

KeyLen(key) == 4

StrLen(s) == s.len + 3 * s.dots

RECURSIVE SumOver(_, _)
SumOver(f, n) == IF n = 0 THEN 0 ELSE f[n] + SumOver(f, n - 1)

\* len(json.dumps(v)) with the default separators ", " and ": "; the texts
\* hold no character that JSON escapes.
RECURSIVE JsonLen(_)
JsonLen(v) ==
    CASE v.kind = "str" -> StrLen(v) + 2
      [] v.kind = "dict" ->
            LET n == Len(v.items)
                each == [i \in 1..n |->
                            KeyLen(v.items[i].key) + 2 + 2 + JsonLen(v.items[i].value)]
            IN 2 + SumOver(each, n) + (IF n > 0 THEN 2 * (n - 1) ELSE 0)
      [] v.kind \in {"list", "tuple"} ->
            LET n == Len(v.items)
                each == [i \in 1..n |-> JsonLen(v.items[i])]
            IN 2 + SumOver(each, n) + (IF n > 0 THEN 2 * (n - 1) ELSE 0)
      [] OTHER -> 4

\* The JSON text of v, as a string.
JsonStr(v) == [kind |-> "str", src |-> [json |-> v], len |-> JsonLen(v), dots |-> 0]

\* json.loads(s) succeeds: s is a whole JSON text.
IsJsonText(s) ==
    /\ "json" \in DOMAIN s.src
    /\ s.dots = 0
    /\ s.len = JsonLen(s.src.json)

\* s[:k]
Slice(s, k) == IF k <= s.len THEN [s EXCEPT !.len = k, !.dots = 0] ELSE s

\* s + "..."
Ellipsis(s) == [s EXCEPT !.dots = @ + 1]

Digits(n) == IF n < 10 THEN 1 ELSE IF n < 100 THEN 2 ELSE IF n < 1000 THEN 3 ELSE 4

\* f"... and {n} more items" (line 354)
MoreItems(n) ==
    [kind |-> "str", src |-> [more_items |-> n], len |-> 8 + Digits(n) + 11,
     dots |-> 0]

\* n keys (or elements), the first with value first, the others with rest.
Repeat(n, first, rest) == [i \in 1..n |-> IF i = 1 THEN first ELSE rest]
DictOf(n, first, rest) ==
    Dict([i \in 1..n |-> Item(i, Repeat(n, first, rest)[i])])
ListOf(n, first, rest) == List(Repeat(n, first, rest))

NoneValue == [kind |-> "none"]

\* The raw results the original tool may return.
SmallDict == DictOf(3, PlainStr(50), PlainStr(300))
LongValuesDict == DictOf(30, PlainStr(1700), PlainStr(1700))
ManyKeysDict == DictOf(60, PlainStr(200), PlainStr(200))
NestedDict == DictOf(2, ListOf(60, PlainStr(200), PlainStr(200)), PlainStr(20))
MixedDict == DictOf(8, ListOf(3, PlainStr(50), PlainStr(50)), PlainStr(1700))
RecordsList == ListOf(8, LongValuesDict, SmallDict)
LongStringsList == ListOf(5, PlainStr(3000), PlainStr(3000))

RawResults ==
    {PlainStr(50), PlainStr(10000), PlainStr(10001), PlainStr(50000)}
        \cup {SmallDict, LongValuesDict, ManyKeysDict, NestedDict, MixedDict}
        \cup {DictOf(1, PlainStr(9988), PlainStr(0)),
              DictOf(1, PlainStr(9989), PlainStr(0))}
        \cup {ListOf(3, PlainStr(50), PlainStr(50)), RecordsList, LongStringsList}
        \cup {JsonStr(SmallDict), JsonStr(LongValuesDict)}
        \cup {Tuple(<<>>), Tuple(<<PlainStr(50), NoneValue>>),
              Tuple(<<JsonStr(RecordsList), NoneValue>>),
              Tuple(<<PlainStr(50000), NoneValue>>)}

\* The raw results of the overlapping invocations.
SpoolResults == {PlainStr(50), PlainStr(50000), LongValuesDict}

ToolNames == {"get_record", "describe_object"}

FsOutcomes ==
    {"ok", "makedirs_raises", "open_raises", "write_raises", "write_raises_once"}

-----------------------------------------------------------------------------
(* wrap_mcp_tool.wrapped_func (lines 285-361)                              *)

LargeResponse == 10000
LongField == 200
FirstItems == 5
FirstChars == 2000

\* lines 297-306: a tuple gives its first element, a JSON string its value.
Untuple(result) ==
    IF result.kind = "tuple" /\ Len(result.items) > 0 THEN result.items[1] ELSE result

ParseJson(result) ==
    IF result.kind = "str" /\ IsJsonText(result) THEN result.src.json ELSE result

Normalise(raw) == ParseJson(Untuple(raw))

\* len(result_str) of line 309; str(()) is "()".
ResultStrLen(result) ==
    CASE result.kind \in {"dict", "list"} -> JsonLen(result)
      [] result.kind = "str" -> StrLen(result)
      [] result.kind = "tuple" -> 2
      [] OTHER -> 4

\* Variant of IsLarge with the comparison of line 311 made inclusive.
IsLarge_inclusive(result) == ResultStrLen(result) >= LargeResponse

\* line 311
IsLarge(result) == ResultStrLen(result) > LargeResponse

\* Variant of TruncateField that also cuts a value of exactly LongField
\* characters.
TruncateField_inclusive(value) ==
    IF value.kind = "str" /\ StrLen(value) >= LongField
    THEN Ellipsis(Slice(value, LongField))
    ELSE value

\* lines 332-335 and 345-348
TruncateField(value) ==
    IF value.kind = "str" /\ StrLen(value) > LongField
    THEN Ellipsis(Slice(value, LongField))
    ELSE value

\* lines 330-336 and 343-349
TruncateDict(d) ==
    Dict([i \in 1..Len(d.items) |->
            Item(d.items[i].key, TruncateField(d.items[i].value))])

\* Variant of TruncateList that appends the marker to every list.
TruncateList_always_marked(l) ==
    LET n == Len(l.items)
        truncated_list ==
            [i \in 1..Min(n, FirstItems) |->
                IF l.items[i].kind = "dict" THEN TruncateDict(l.items[i])
                ELSE l.items[i]]
    IN List(truncated_list \o <<MoreItems(n - Min(n, FirstItems))>>)

\* lines 340-355
TruncateList(l) ==
    LET n == Len(l.items)
        truncated_list ==
            [i \in 1..Min(n, FirstItems) |->
                IF l.items[i].kind = "dict" THEN TruncateDict(l.items[i])
                ELSE l.items[i]]
    IN IF n > FirstItems
       THEN List(truncated_list \o <<MoreItems(n - FirstItems)>>)
       ELSE List(truncated_list)

\* Variant of Truncate that returns a long string without the ellipsis.
Truncate_string_unmarked(result) ==
    CASE result.kind = "dict" -> TruncateDict(result)
      [] result.kind = "list" -> TruncateList(result)
      [] result.kind = "str" -> Slice(result, FirstChars)
      [] OTHER -> result

\* lines 328-359: what is returned for a large result.
Truncate(result) ==
    CASE result.kind = "dict" -> TruncateDict(result)
      [] result.kind = "list" -> TruncateList(result)
      [] result.kind = "str" ->
            IF StrLen(result) > FirstChars
            THEN Ellipsis(Slice(result, FirstChars))
            ELSE result
      [] OTHER -> result

\* lines 314-315: "mcp_output/{name}_{timestamp}.json". The timestamp has a
\* fixed width, so the name and the second determine the file name.
FileName(tool, now) == <<tool, now>>

\* A text that names a spool file.
SavedTo(filename) ==
    [kind |-> "str", src |-> [saved_to |-> filename], len |-> 40, dots |-> 0]

\* Variant of Payload that tells the agent where the result was saved.
Payload_names_file(result, filename) == SavedTo(filename)

\* The value of the return statements of lines 336, 354-355 and 359, which
\* have filename in scope.
Payload(result, filename) == Truncate(result)

\* lines 319-322: what a complete write leaves in the file.
FileContent(result) ==
    IF result.kind \in {"dict", "list"}
    THEN [format |-> "json", value |-> result]
    ELSE [format |-> "text", value |-> result]

\* open(filename, 'w') creates or truncates the file.
WriteFile(fs, name, content) ==
    [f \in (DOMAIN fs) \cup {name} |-> IF f = name THEN content ELSE fs[f]]

NoFile == <<>>
InvocationIds == 1..MaxInvocations
IdleInvocation == [pc |-> "idle"]

WrapperInit ==
    /\ clock = 0
    /\ spool_dir = FALSE
    /\ files = <<>>
    /\ inv = [i \in InvocationIds |-> IdleInvocation]

\* The agent calls a wrapped tool: wrapped_func suspends in the original tool
\* (line 288).
invoke(i, tool) ==
    /\ inv[i].pc = "idle"
    /\ \A x \in InvocationIds : x < i => inv[x].pc # "idle"
    /\ inv' = [inv EXCEPT ![i] = [pc |-> "running", tool |-> tool]]
    /\ UNCHANGED <<clock, spool_dir, files>>
    /\ UNCHANGED OutsideWrapper

\* The original tool returns raw: lines 292-361 run without suspending. fs
\* says how the file system answers lines 313-324.
tool_returns(i, raw, fs) ==
    /\ inv[i].pc = "running"
    /\ LET result == Normalise(raw)
           tool == inv[i].tool
           filename == FileName(tool, clock)
           done(pc, payload, file, written) ==
               [pc |-> pc, tool |-> tool, raw |-> raw, result |-> result,
                payload |-> payload, file |-> file, written |-> written, fs |-> fs]
       IN IF ~IsLarge(result)
          THEN /\ fs = "ok"
               /\ inv' = [inv EXCEPT ![i] = done("returned", result, NoFile, FALSE)]
               /\ UNCHANGED <<spool_dir, files>>
          ELSE CASE fs = "makedirs_raises" ->
                      /\ ~spool_dir
                      /\ inv' = [inv EXCEPT
                                    ![i] = done("raised", NoneValue, NoFile, FALSE)]
                      /\ UNCHANGED <<spool_dir, files>>
                 [] fs = "open_raises" ->
                      /\ spool_dir' = TRUE
                      /\ inv' = [inv EXCEPT
                                    ![i] = done("raised", NoneValue, NoFile, FALSE)]
                      /\ UNCHANGED files
                 [] fs = "write_raises" ->
                      /\ spool_dir' = TRUE
                      /\ files' = WriteFile(files, filename, [format |-> "partial"])
                      /\ inv' = [inv EXCEPT
                                    ![i] = done("raised", NoneValue, filename, FALSE)]
                 [] fs = "write_raises_once" ->
                      /\ spool_dir' = TRUE
                      /\ files' = WriteFile(files, filename,
                                            [format |-> "partial+text", value |-> result])
                      /\ inv' = [inv EXCEPT
                                    ![i] = done("returned", Payload(result, filename),
                                                filename, FALSE)]
                 [] OTHER ->
                      /\ spool_dir' = TRUE
                      /\ files' = WriteFile(files, filename, FileContent(result))
                      /\ inv' = [inv EXCEPT
                                    ![i] = done("returned", Payload(result, filename),
                                                filename, TRUE)]
    /\ UNCHANGED clock
    /\ UNCHANGED OutsideWrapper

\* A second passes.
tick ==
    /\ clock < MaxClock
    /\ clock' = clock + 1
    /\ UNCHANGED <<spool_dir, files, inv>>
    /\ UNCHANGED OutsideWrapper

-----------------------------------------------------------------------------
(* The wrapper of src/server_first.py, wrap_mcp_tool.wrapped_func          *)
(* (lines 243-288)                                                         *)

FirstKeys == 20
FirstPortion == 3000

\* The number of digits of n.
RECURSIVE DecimalLen(_)
DecimalLen(n) == IF n < 10 THEN 1 ELSE 1 + DecimalLen(n \div 10)

\* len(json.dumps(v, indent=2)) for a value at nesting depth d.
RECURSIVE JsonIndentLen(_, _)
JsonIndentLen(v, d) ==
    CASE v.kind = "str" -> StrLen(v) + 2
      [] v.kind = "dict" ->
            LET n == Len(v.items)
                each == [i \in 1..n |->
                            1 + 2 * (d + 1) + KeyLen(v.items[i].key) + 2 + 2
                              + JsonIndentLen(v.items[i].value, d + 1)]
            IN IF n = 0 THEN 2
               ELSE 1 + SumOver(each, n) + (n - 1) + 1 + 2 * d + 1
      [] v.kind \in {"list", "tuple"} ->
            LET n == Len(v.items)
                each == [i \in 1..n |->
                            1 + 2 * (d + 1) + JsonIndentLen(v.items[i], d + 1)]
            IN IF n = 0 THEN 2
               ELSE 1 + SumOver(each, n) + (n - 1) + 1 + 2 * d + 1
      [] OTHER -> 4

\* len(str(result)) of line 253: the repr of a mapping or a sequence is as
\* long as its JSON text, that of a one-element tuple has one comma more.
first_ResultStrLen(result) ==
    CASE result.kind \in {"dict", "list"} -> JsonLen(result)
      [] result.kind = "str" -> StrLen(result)
      [] result.kind = "tuple" ->
            IF Len(result.items) = 1 THEN JsonLen(result) + 1 ELSE JsonLen(result)
      [] OTHER -> 4

\* line 254
first_IsLarge(result) == first_ResultStrLen(result) > LargeResponse

\* f"{truncated}\n\n... ({note})": the first FirstPortion characters of a
\* text followed by a note; text_len and note_len are their lengths.
Portion(text, text_len, note, note_len) ==
    [kind |-> "str", src |-> [portion_of |-> text, note |-> note],
     len |-> Min(text_len, FirstPortion) + note_len, dots |-> 0]

\* lines 273-286: what is returned for a large result.
first_Truncate(result) ==
    LET total == first_ResultStrLen(result)
    IN CASE result.kind = "dict" ->
              LET summary == Dict(SubSeq(result.items, 1,
                                         Min(Len(result.items), FirstKeys)))
              IN Portion([indented |-> summary], JsonIndentLen(summary, 0),
                         [total_size |-> total], 71 + DecimalLen(total) + 7)
         [] result.kind = "list" ->
              LET summary == List(SubSeq(result.items, 1,
                                         Min(Len(result.items), FirstItems)))
              IN Portion([indented |-> summary], JsonIndentLen(summary, 0),
                         [shown |-> Len(summary.items),
                          total_items |-> Len(result.items)],
                         42 + DecimalLen(Len(summary.items)) + 21
                            + DecimalLen(Len(result.items)) + 1)
         [] OTHER ->
              Portion([str |-> result], total,
                      [total_size |-> total], 39 + DecimalLen(total) + 7)

\* Variant of first_Payload that tells the agent where the result was saved.
first_Payload_names_file(result, filename) == SavedTo(filename)

\* The value of the return statements of lines 277, 282 and 286, which have
\* filename in scope.
first_Payload(result, filename) == first_Truncate(result)

\* The original tool returns raw to the wrapper of server_first.py: lines
\* 252-288 run without suspending. The result is taken as it is; the file
\* name is printed to the console (line 269).
first_tool_returns(i, raw, fs) ==
    /\ inv[i].pc = "running"
    /\ LET tool == inv[i].tool
           filename == FileName(tool, clock)
           done(pc, payload, file, written, console) ==
               [pc |-> pc, tool |-> tool, raw |-> raw, result |-> raw,
                payload |-> payload, file |-> file, written |-> written, fs |-> fs,
                console |-> console]
       IN IF ~first_IsLarge(raw)
          THEN /\ fs = "ok"
               /\ inv' = [inv EXCEPT
                             ![i] = done("returned", raw, NoFile, FALSE, NoFile)]
               /\ UNCHANGED <<spool_dir, files>>
          ELSE CASE fs = "makedirs_raises" ->
                      /\ ~spool_dir
                      /\ inv' = [inv EXCEPT
                                    ![i] = done("raised", NoneValue, NoFile, FALSE,
                                                NoFile)]
                      /\ UNCHANGED <<spool_dir, files>>
                 [] fs = "open_raises" ->
                      /\ spool_dir' = TRUE
                      /\ inv' = [inv EXCEPT
                                    ![i] = done("raised", NoneValue, NoFile, FALSE,
                                                NoFile)]
                      /\ UNCHANGED files
                 [] fs = "write_raises" ->
                      /\ spool_dir' = TRUE
                      /\ files' = WriteFile(files, filename, [format |-> "partial"])
                      /\ inv' = [inv EXCEPT
                                    ![i] = done("raised", NoneValue, filename, FALSE,
                                                NoFile)]
                 [] fs = "write_raises_once" ->
                      /\ spool_dir' = TRUE
                      /\ files' = WriteFile(files, filename,
                                            [format |-> "partial+text", value |-> raw])
                      /\ inv' = [inv EXCEPT
                                    ![i] = done("returned",
                                                first_Payload(raw, filename),
                                                filename, FALSE, filename)]
                 [] OTHER ->
                      /\ spool_dir' = TRUE
                      /\ files' = WriteFile(files, filename, FileContent(raw))
                      /\ inv' = [inv EXCEPT
                                    ![i] = done("returned",
                                                first_Payload(raw, filename),
                                                filename, TRUE, filename)]
    /\ UNCHANGED clock
    /\ UNCHANGED OutsideWrapper

-----------------------------------------------------------------------------
(* Properties of the MCP output wrapper                                    *)

Returned(i) == inv[i].pc = "returned"

\* The serialized length of a value: its text for a string, JSON otherwise.
SerializedLen(v) == IF v.kind = "str" THEN StrLen(v) ELSE JsonLen(v)

\* The characters the markers add: an ellipsis and the omitted-items element.
MarkerOverhead == StrLen(Ellipsis(PlainStr(0))) + JsonLen(MoreItems(9999)) + 2

\* C6: the serialized length of every payload the wrapper delivers is at most
\* the cap plus the marker overhead, whatever the size and shape of the result.
C6_PayloadBounded ==
    \A i \in InvocationIds :
        Returned(i) => SerializedLen(inv[i].payload) <= LargeResponse + MarkerOverhead

\* C7 as stated: a raw result of serialized size at most the cap is delivered
\* exactly as the original tool returned it, tuples and JSON strings included,
\* and no spool file is written.
C7_RawResultPassedThrough ==
    \A i \in InvocationIds :
        (Returned(i) /\ SerializedLen(inv[i].raw) <= LargeResponse) =>
            /\ inv[i].payload = inv[i].raw
            /\ inv[i].file = NoFile

\* C7 as amended: the size is measured on the normalised result (the first
\* element of a non-empty tuple, then the parsed value of a string that is a
\* JSON text); at most 10,000 characters, the normalised result is delivered
\* unchanged and no spool file is written, and this is the raw result itself
\* unless it is a non-empty tuple or a JSON string; above 10,000 (from 10,001
\* on) a delivered result has a spool file.
C7_NormalisedResultPassedThrough ==
    \A i \in InvocationIds :
        Returned(i) =>
            LET raw == inv[i].raw
                first == IF raw.kind = "tuple" /\ raw.items # <<>>
                         THEN raw.items[1] ELSE raw
                expected == IF first.kind = "str" /\ IsJsonText(first)
                            THEN first.src.json ELSE first
                size == IF expected.kind = "tuple" THEN 2
                        ELSE SerializedLen(expected)
            IN /\ size <= LargeResponse =>
                    /\ inv[i].payload = expected
                    /\ inv[i].file = NoFile
                    /\ files = <<>>
               /\ size > LargeResponse =>
                    /\ inv[i].file # NoFile
                    /\ inv[i].file \in DOMAIN files

\* A JSON string below the cap was delivered as its parsed value.
C7_Witness ==
    \E i \in InvocationIds :
        /\ Returned(i)
        /\ inv[i].raw.kind = "str"
        /\ IsJsonText(inv[i].raw)
        /\ SerializedLen(inv[i].raw) <= LargeResponse
        /\ inv[i].payload = inv[i].raw.src.json
        /\ inv[i].payload # inv[i].raw

\* C8: for every invocation whose result was spooled, the spool file written
\* for it holds the full serialized form of that invocation's own result, when
\* the payload is delivered and ever after.
C8_SpoolFileHoldsOwnResult ==
    \A i \in InvocationIds :
        (Returned(i) /\ inv[i].written) =>
            /\ inv[i].file \in DOMAIN files
            /\ files[inv[i].file] = FileContent(inv[i].result)

\* C9: two spooled results never get the same spool file name, so that there
\* are as many spool files as results for which a file was opened.
C9_OneFilePerSpooledResult ==
    /\ \A i, j \in InvocationIds :
          (i # j /\ inv[i].pc # "idle" /\ inv[j].pc # "idle"
             /\ inv[i].pc # "running" /\ inv[j].pc # "running"
             /\ inv[i].file # NoFile /\ inv[j].file # NoFile) =>
                inv[i].file # inv[j].file
    /\ Cardinality(DOMAIN files) =
          Cardinality({i \in InvocationIds :
                          inv[i].pc \in {"returned", "raised"} /\ inv[i].file # NoFile})

\* C10: when a large result cannot be persisted, the invocation still returns
\* the truncated payload, with the result not spooled.
C10_PersistenceFailureDegrades ==
    \A i \in InvocationIds :
        (/\ inv[i].pc \in {"returned", "raised"}
         /\ IsLarge(inv[i].result)
         /\ inv[i].fs # "ok") =>
            /\ inv[i].pc = "returned"
            /\ inv[i].payload = Truncate(inv[i].result)
            /\ ~inv[i].written

\* The value names the spool file.
RECURSIVE Mentions(_, _)
Mentions(v, file) ==
    CASE v.kind = "str" ->
            \/ "saved_to" \in DOMAIN v.src /\ v.src.saved_to = file
            \/ "json" \in DOMAIN v.src /\ Mentions(v.src.json, file)
            \/ "portion_of" \in DOMAIN v.src /\
                  \/ "indented" \in DOMAIN v.src.portion_of
                        /\ Mentions(v.src.portion_of.indented, file)
                  \/ "str" \in DOMAIN v.src.portion_of
                        /\ Mentions(v.src.portion_of.str, file)
      [] v.kind = "dict" ->
            \E i \in 1..Len(v.items) : Mentions(v.items[i].value, file)
      [] v.kind \in {"list", "tuple"} ->
            \E i \in 1..Len(v.items) : Mentions(v.items[i], file)
      [] OTHER -> FALSE

\* The invocation went through the wrapper of server_first.py.
FirstVersion(i) == "console" \in DOMAIN inv[i]

\* C28: the payload delivered for a result that was spooled does not name
\* the spool file, whether the result is a mapping, a sequence or a string,
\* in the wrapper of server.py and in that of server_first.py (which prints
\* the name to the console).
C28_PayloadNeverNamesSpoolFile ==
    \A i \in InvocationIds :
        (Returned(i) /\ inv[i].file # NoFile) =>
            ~Mentions(inv[i].payload, inv[i].file)

\* A mapping was spooled by the wrapper of server.py and a string by the
\* wrapper of server_first.py, and both payloads were delivered.
C28_Witness ==
    \E i, j \in InvocationIds :
        /\ Returned(i) /\ ~FirstVersion(i)
        /\ inv[i].written /\ inv[i].result.kind = "dict"
        /\ Returned(j) /\ FirstVersion(j)
        /\ inv[j].written /\ inv[j].result.kind = "str"
        /\ inv[j].console = inv[j].file

\* A value of a payload is what the rule for the values of a mapping makes of
\* the value of the result: the first 200 characters and an ellipsis for a
\* string of more than 200 characters, the value itself otherwise.
FieldRule(value, delivered) ==
    IF value.kind = "str" /\ StrLen(value) > 200
    THEN /\ delivered.kind = "str"
         /\ delivered.src = value.src
         /\ delivered.len = 200
         /\ delivered.dots = value.dots + 1
    ELSE delivered = value

\* A payload is what the mapping rule makes of a mapping: the same keys in
\* the same order, each value by the rule for values.
MappingRule(result, delivered) ==
    /\ delivered.kind = "dict"
    /\ Len(delivered.items) = Len(result.items)
    /\ \A k \in 1..Len(result.items) :
          /\ delivered.items[k].key = result.items[k].key
          /\ FieldRule(result.items[k].value, delivered.items[k].value)

\* An invocation of the wrapper of server.py delivered the payload of a
\* large result of this kind.
DeliveredLarge(i, kind) ==
    /\ Returned(i)
    /\ ~FirstVersion(i)
    /\ inv[i].result.kind = kind
    /\ IsLarge(inv[i].result)

C30_LargeSequenceKeepsFirstFive ==
    \A i \in InvocationIds :
        DeliveredLarge(i, "list") =>
            LET result == inv[i].result
                delivered == inv[i].payload
                n == Len(result.items)
                kept == IF n < 5 THEN n ELSE 5
            IN /\ delivered.kind = "list"
               /\ Len(delivered.items) = IF n > 5 THEN kept + 1 ELSE kept
               /\ \A k \in 1..kept :
                     IF result.items[k].kind = "dict"
                     THEN MappingRule(result.items[k], delivered.items[k])
                     ELSE delivered.items[k] = result.items[k]
               /\ n > 5 =>
                     /\ delivered.items[kept + 1].kind = "str"
                     /\ delivered.items[kept + 1].src = [more_items |-> n - 5]

\* A large sequence of more than five mappings was delivered with its marker.
C30_Witness ==
    \E i \in InvocationIds :
        /\ DeliveredLarge(i, "list")
        /\ Len(inv[i].result.items) > 5
        /\ inv[i].result.items[1].kind = "dict"
        /\ inv[i].payload.items[1] # inv[i].result.items[1]
        /\ Len(inv[i].payload.items) = 6

\* A text of the payload states a number of omitted characters.
StatesOmitted(delivered, n) ==
    /\ "omitted" \in DOMAIN delivered.src
    /\ delivered.src.omitted = n

\* C31 as stated: the payload delivered for a large string is its first 2000
\* characters followed by a marker that states how many characters were
\* omitted.
C31_StringMarkerStatesOmitted ==
    \A i \in InvocationIds :
        DeliveredLarge(i, "str") =>
            /\ inv[i].payload.kind = "str"
            /\ inv[i].payload.len = 2000
            /\ StatesOmitted(inv[i].payload, StrLen(inv[i].result) - 2000)

\* C31 as amended: the payload delivered for a large string is its first 2000
\* characters followed by the ellipsis "...", which states no count.
C31_StringCutWithEllipsis ==
    \A i \in InvocationIds :
        DeliveredLarge(i, "str") =>
            /\ inv[i].payload.kind = "str"
            /\ inv[i].payload.src = inv[i].result.src
            /\ inv[i].payload.len = 2000
            /\ inv[i].payload.dots = inv[i].result.dots + 1
            /\ StrLen(inv[i].payload) = 2003

\* A string of 50,000 characters was spooled and its payload delivered.
C31_Witness ==
    \E i \in InvocationIds :
        /\ DeliveredLarge(i, "str")
        /\ StrLen(inv[i].result) = 50000
        /\ inv[i].written

\* C32: the payload delivered for a large mapping of more than 20 top-level
\* keys has the first 20 keys only, each string value cut at 200 characters;
\* the result is spooled and the spool file holds all keys of the result
\* (stated for the invocations whose file was written without an error).
C32_LargeMappingKeepsFirstTwentyKeys ==
    \A i \in InvocationIds :
        (DeliveredLarge(i, "dict") /\ Len(inv[i].result.items) > 20
            /\ inv[i].fs = "ok") =>
            /\ inv[i].payload.kind = "dict"
            /\ MappingRule(Dict(SubSeq(inv[i].result.items, 1, 20)), inv[i].payload)
            /\ inv[i].file \in DOMAIN files
            /\ files[inv[i].file] = [format |-> "json", value |-> inv[i].result]

\* A mapping of 30 keys and more than 50,000 characters was spooled and its
\* payload delivered with all 30 keys.
C32_Witness ==
    \E i \in InvocationIds :
        /\ DeliveredLarge(i, "dict")
        /\ Len(inv[i].result.items) = 30
        /\ JsonLen(inv[i].result) > 50000
        /\ inv[i].written
        /\ Len(inv[i].payload.items) = 30

\* No tool is invoked.
WrapperIdle == WrapperInit

\* One invocation at a time, over all result shapes.
WrapperNext ==
    \/ \E tool \in ToolNames : invoke(1, tool)
    \/ \E raw \in RawResults, fs \in FsOutcomes : tool_returns(1, raw, fs)

\* The results the two wrappers are compared on.
ArbiterResults ==
    {PlainStr(50), PlainStr(50000), LongValuesDict, ManyKeysDict, RecordsList,
     JsonStr(LongValuesDict), Tuple(<<PlainStr(50000), NoneValue>>)}

\* Invocations of the wrapper of server.py and of that of server_first.py.
ArbitersNext ==
    \/ \E i \in InvocationIds, tool \in ToolNames : invoke(i, tool)
    \/ \E i \in InvocationIds, raw \in ArbiterResults, fs \in FsOutcomes :
            tool_returns(i, raw, fs)
    \/ \E i \in InvocationIds, raw \in ArbiterResults, fs \in FsOutcomes :
            first_tool_returns(i, raw, fs)

\* Overlapping invocations that share the spool directory.
SpoolNext ==
    \/ \E i \in InvocationIds, tool \in ToolNames : invoke(i, tool)
    \/ \E i \in InvocationIds, raw \in SpoolResults, fs \in FsOutcomes :
            tool_returns(i, raw, fs)
    \/ tick

-----------------------------------------------------------------------------
(* Two streaming turns on one agent: each call of chat() defines its own   *)
(* generate(), whose locals are created at lines 601-603                   *)

\* The chunks the agent yields in a turn when two turns are followed.
TurnChunks ==
    {[messages |-> <<HumanMessage, m>>] :
        m \in {AIMessage(<<>>, <<CallA>>), AIMessage(<<"p">>, <<>>),
               AIMessage(<<"f">>, <<>>)}}

\* The server after startup_event with no MCP server enabled: the slot holds
\* the first instance, and both turns run on it.
SlotServing ==
    /\ started = TRUE
    /\ mcp_enabled = {}
    /\ mcp_disabled = {}
    /\ unloadable = {}
    /\ last_call = NoCall
    /\ ws_turns = <<>>
    /\ agent = NewInstance(1, DefaultBuild, {}, 0)
    /\ mcp_client = NoClient
    /\ instances = 1
    /\ clients = 0
    /\ req = [r \in RequestIds |-> IdleRequest]
    /\ slot_log = <<>>

\* The second generate() starts: lines 601-606 up to the first pull.
generate2_start ==
    /\ turn2.gpc = "new"
    /\ turn2' = [turn2 EXCEPT !.gpc = "run", !.final_response = <<>>,
                              !.step_count = 0, !.seen_tool_calls = {}]
    /\ UNCHANGED <<mapperVars, slotVars, wrapperVars>>

\* Variant of generate2_chunk in which the dedup state (seen_tool_calls,
\* final_response) is that of the first generate() and not its own.
generate2_chunk_shared_state(chunk) ==
    /\ turn2.gpc = "run"
    /\ Len(turn2.chunks) < MaxSnaps
    /\ LET st == LoopBody(chunk,
                          LoopState(seen_tool_calls, turn2.step_count,
                                    final_response, turn2.events, turn2.cause),
                          Len(turn2.chunks) + 1)
       IN turn2' = [turn2 EXCEPT !.step_count = st.steps, !.events = st.evs,
                                 !.cause = st.why,
                                 !.chunks = Append(turn2.chunks, chunk)]
    /\ UNCHANGED <<mapperVars, slotVars, wrapperVars>>

\* The source of the second generate() yields a chunk and its loop body runs.
generate2_chunk(chunk) ==
    /\ turn2.gpc = "run"
    /\ Len(turn2.chunks) < MaxSnaps
    /\ LET st == LoopBody(chunk,
                          LoopState(turn2.seen_tool_calls, turn2.step_count,
                                    turn2.final_response, turn2.events,
                                    turn2.cause),
                          Len(turn2.chunks) + 1)
       IN turn2' = [turn2 EXCEPT !.seen_tool_calls = st.seen,
                                 !.step_count = st.steps,
                                 !.final_response = st.resp,
                                 !.events = st.evs,
                                 !.cause = st.why,
                                 !.chunks = Append(turn2.chunks, chunk)]
    /\ UNCHANGED <<mapperVars, slotVars, wrapperVars>>

\* The source of the second generate() is exhausted: lines 649-658.
generate2_exhausted ==
    /\ turn2.gpc = "run"
    /\ turn2' = [turn2 EXCEPT
                    !.gpc = "done",
                    !.events = Append(turn2.events,
                                      [type |-> "final",
                                       content |-> IF turn2.final_response # <<>>
                                                   THEN turn2.final_response
                                                   ELSE T_TaskCompleted]),
                    !.cause = Append(turn2.cause,
                                     [snap |-> Len(turn2.chunks) + 1,
                                      call |-> NoFailure])]
    /\ UNCHANGED <<mapperVars, slotVars, wrapperVars>>

\* The events a turn owes to the chunks it was given, when it runs alone.
EventsAlone(chs) == MapChunks(chs, LoopState({}, 0, <<>>, <<>>, <<>>), 1).evs

\* The events of a turn before its terminal event.
BeforeTerminal(evs, pc) ==
    IF pc = "done" THEN SubSeq(evs, 1, Len(evs) - 1) ELSE evs

\* C19: once the client has closed the stream of a turn, and in the step
\* that closes it, that turn pulls no chunk, yields no event and calls
\* astream no more, and the slot (agent, mcp_client) stays as it is, while
\* the other turn goes on.
C19_DisconnectStopsTheTurn ==
    [][gpc' = "closed" =>
         /\ pulls' = pulls
         /\ chunks' = chunks
         /\ events' = events
         /\ astream_calls' = astream_calls
         /\ agent' = agent
         /\ mcp_client' = mcp_client]_vars

\* The client closed the stream after a 'thinking' event; the other turn ran
\* to its 'final' event, and the slot holds the instance both turns ran on.
C19_Witness ==
    /\ gpc = "closed"
    /\ events # <<>>
    /\ EventsOfType("final") \cup EventsOfType("error") = {}
    /\ turn2.gpc = "done"
    /\ Len(turn2.chunks) = MaxSnaps
    /\ agent = NewInstance(1, DefaultBuild, {}, 0)

\* C20: with two turns on the same agent, one after the other or
\* overlapping, the events of each turn before its terminal event are the
\* events it owes to its own chunks when it runs alone.
C20_TurnsDoNotShareDedupState ==
    /\ BeforeTerminal(events, gpc) = EventsAlone(chunks)
    /\ BeforeTerminal(turn2.events, turn2.gpc) = EventsAlone(turn2.chunks)

\* Both turns were given the same tool call and the same content, and each
\* yielded its own 'thinking' and 'token' event for them.
C20_Witness ==
    /\ Len(events) >= 2 /\ Len(turn2.events) >= 2
    /\ events[1].type = "thinking" /\ turn2.events[1] = events[1]
    /\ events[2].type = "token" /\ turn2.events[2] = events[2]
    /\ chunks[1] = turn2.chunks[1]
    /\ gpc = "done"
    /\ turn2.gpc = "run"

-----------------------------------------------------------------------------
(* A source whose chunks are growing prefixes of one conversation: with    *)
(* stream_mode="values" (line 606) every chunk holds all messages so far   *)

\* The messages the agent may add to the conversation.
AddedMessages ==
    {AIMessage(<<>>, <<CallA>>), AIMessage(<<>>, <<CallC>>),
     AIMessage(<<"f">>, <<>>), ToolMessage}

\* What one step of the agent adds: one message, or two when a step of the
\* graph appends an AIMessage and the message that follows it together.
Extensions ==
    {<<m>> : m \in AddedMessages}
        \cup {<<m1, m2>> : m1 \in AddedMessages, m2 \in AddedMessages}

\* The conversation of the most recent chunk; the input of the turn (line
\* 606) before the first one.
Conversation ==
    IF chunks = <<>> THEN <<HumanMessage>> ELSE Last(chunks).messages

\* The agent extends the conversation and yields the whole of it as the next
\* chunk.
astream_yields(ext) == generate_chunk([messages |-> Conversation \o ext])

IsPrefix(s, t) == Len(s) <= Len(t) /\ SubSeq(t, 1, Len(s)) = s

\* Every chunk holds messages and extends the chunk before it.
GrowingPrefixes ==
    /\ \A n \in 1..Len(chunks) : HasMessages(chunks[n])
    /\ \A n \in 1..(Len(chunks) - 1) :
          /\ IsPrefix(chunks[n].messages, chunks[n + 1].messages)
          /\ chunks[n].messages # chunks[n + 1].messages

\* The identities of the pending tool calls of all AIMessages of a
\* conversation.
CallsIn(messages) ==
    UNION {IF messages[k].type = "AIMessage"
           THEN {Identity(messages[k].tool_calls[x]) :
                    x \in 1..Len(messages[k].tool_calls)}
           ELSE {} : k \in 1..Len(messages)}

\* C21: when the chunks are growing prefixes of the conversation and the
\* turn ends with 'final', every pending tool call of every AIMessage of the
\* last chunk has a 'thinking' event.
C21_LastMessageLosesNothing ==
    (Exhausted /\ chunks # <<>> /\ GrowingPrefixes) =>
        \A identity \in CallsIn(Last(chunks).messages) :
            ThinkingEventsFor(identity) # {}

PrefixNext ==
    \/ generate_start
    \/ \E ext \in Extensions : astream_yields(ext)
    \/ generate_exhausted
    \/ \E e \in Errors : generate_raises(e)
    \/ client_disconnects

TurnsNext ==
    \/ generate_start
    \/ \E chunk \in TurnChunks : generate_chunk(chunk)
    \/ generate_exhausted
    \/ \E e \in Errors : generate_raises(e)
    \/ client_disconnects
    \/ generate2_start
    \/ \E chunk \in TurnChunks : generate2_chunk(chunk)
    \/ generate2_exhausted

MapperNext ==
    \/ generate_start
    \/ \E chunk \in Chunks : generate_chunk(chunk)
    \/ generate_exhausted
    \/ \E e \in Errors : generate_raises(e)
    \/ client_disconnects

InitMapper == MapperInit /\ SlotIdle /\ WrapperIdle

SpecMapper == InitMapper /\ [][MapperNext]_vars

InitSlot == SlotInit /\ MapperIdle /\ WrapperIdle

SpecSlot == InitSlot /\ [][SlotNext]_vars

InitWrapper == WrapperInit /\ MapperIdle /\ SlotIdle

SpecWrapper == InitWrapper /\ [][WrapperNext]_vars

SpecSpool == InitWrapper /\ [][SpoolNext]_vars

SpecArbiters == InitWrapper /\ [][ArbitersNext]_vars

InitTurns == MapperInit /\ SlotServing /\ WrapperIdle

SpecTurns == InitTurns /\ [][TurnsNext]_vars

SpecPrefix == InitMapper /\ [][PrefixNext]_vars

InitConfig == SlotInit /\ unloadable = {} /\ MapperIdle /\ WrapperIdle

SpecConfig == InitConfig /\ [][ConfigNext]_vars

SpecSocket == InitConfig /\ [][SocketNext]_vars

SpecManage == InitConfig /\ [][ManageNext]_vars

InitBrowser == SlotIdle /\ MapperIdle /\ WrapperIdle

SpecBrowser == InitBrowser /\ [][BrowserNext]_vars

=============================================================================
